---- MODULE Spec2Model ----
(***************************************************************************)
(* State-machine model of the realtime-delivery dispatch core:             *)
(*   - OrdersService (createOrder / assignRider / updateOrderStatus) over  *)
(*     a PostgreSQL store reached through knex transactions,               *)
(*   - RabbitMQService (connect / reconnect, publish, consume with retry   *)
(*     and dead-lettering) over an AMQP broker,                            *)
(*   - the part of DispatchGateway that createOrder calls.                 *)
(*                                                                         *)
(* The database is modelled as PostgreSQL at its default isolation level   *)
(* (READ COMMITTED): a statement issued on the transaction handle `trx`    *)
(* sees the transaction's own uncommitted writes, a statement issued on    *)
(* the pool (`this.db.knex`) sees only committed rows, and an UPDATE of a  *)
(* row waits for the row lock of an uncommitted writer.                    *)
(***************************************************************************)
EXTENDS Integers, Sequences, FiniteSets, TLC

\* ------------------------------------------------------------------ bounds
MaxOrders == 2        \* order ids are 1..MaxOrders
InitialOrders == 1    \* rows already in the orders table at start-up
MaxRiders == 2        \* rider ids are 1..MaxRiders
MaxCalls == 2         \* service calls (HTTP requests) that may overlap
MaxMsgs == 2          \* events published by the bus-level publishers
MaxLosses == 1        \* broker connection losses in a run
MaxSockets == 3       \* socket.io connections accepted in a run
MaxEmits == 2         \* emit calls made by the gateway in a run
MaxRetriesFired == 1  \* retry timers followed at a time while a backlog is consumed

\* ------------------------------------------------------- program constants
databaseMaxRetries == 5
maxReconnectAttempts == 5
maxRetries == 3
prefetchCount == 10

OrderIds == 1..MaxOrders
RiderIds == 1..MaxRiders
Calls == 1..MaxCalls
Statuses == {"pending", "accepted"}

VARIABLES
  \* --- PostgreSQL, committed state
  orders,          \* orders table: order id -> row (NoRow when absent)
  calculated_orders, \* ids of the pricing snapshots present
  logs,            \* logs table, in insertion order
  order_total_amount_history, \* order ids with a history row
  orderSeq,        \* last value of the orders id sequence
  rowLock,         \* order id -> call holding the row lock (0: free)
  \* --- OrdersService calls in progress
  calls,           \* call -> its operation, arguments, position and locals
  \* --- DispatchGateway
  riderSockets,    \* rider id -> socket id (0: no mapping)
  emitted,         \* socket.io emissions made so far
  dispatchSockets, \* dispatcher socket ids, in insertion order (a JavaScript Set)
  connected,       \* socket ids of the socket.io connections that are open
  socketSeq,       \* socket.io connections accepted so far (the id of the last one)
  gwOp,            \* the last gateway call: operation, arguments and return value
  emitCount,       \* emit calls that returned, so far
  \* --- RabbitMQService fields
  moduleInit,      \* onModuleInit has run
  isConnected,
  reconnectAttempts,
  connection,      \* this.connection (0: undefined)
  channel,         \* this.channel (0: undefined); a channel carries the id of its connection
  connecting,      \* connect() calls waiting for amqplib's connect()
  setup,           \* connections whose connect() call is between connect and isConnected = true
  timers,          \* pending setTimeout(() => this.connect())
  crashed,         \* the process-level uncaughtException handler has exited the process
  \* --- the broker
  connSeq,         \* connections opened so far
  open,            \* connections open at the broker
  openCh,          \* channels open at the broker
  queues,          \* queue name -> messages waiting, head first
  consumers,       \* consumers registered: [queue, ch]
  consumeCalled,   \* queue -> "none" | "ok" | "error": outcome of the application's consumeMessages call
  pending,         \* deliveries whose callback has not finished: handler running or retry timer pending
  msgSeq,          \* events published so far (the id of the last one)
  tagSeq,          \* deliveries made so far (the delivery tag of the last one)
  losses,          \* connection losses so far
  publishResult,   \* outcome of the last publish* call made by a caller outside OrdersService
  \* --- history, for stating properties
  outcomes,        \* event id -> handler outcomes of its deliveries, in order
  acks,            \* event id -> acknowledgements sent after a successful handler
  rejects,         \* event id -> reject(msg, false) calls accepted by the broker
  reconnects,      \* connect() calls started by a reconnect timer since isConnected was last set
  \* --- start-up
  brokerInit,      \* RabbitMQService.onModuleInit: "none" | "pending" | "resolved" | "rejected"
  databaseInit,    \* DatabaseService.onModuleInit: "none" | "pending" | "resolved" | "rejected"
  retryCount,      \* DatabaseService.validateConnection: retryCount of the running call
  databaseConnected, \* DatabaseService.isConnected
  \* --- riders
  riders,          \* table riders: rider id -> [is_available, position]
  nearby           \* the last findNearbyAvailableRiders call: its arguments and outcome

dbVars == <<orders, calculated_orders, logs, order_total_amount_history, orderSeq, rowLock>>
svcVars == <<calls>>
gwVars == <<riderSockets, emitted, dispatchSockets, connected, socketSeq, gwOp, emitCount>>
mqVars == <<moduleInit, isConnected, reconnectAttempts, connection, channel, connecting,
            setup, timers, crashed>>
brokerVars == <<connSeq, open, openCh, queues, consumers, consumeCalled, pending, msgSeq, tagSeq, losses, publishResult>>
histVars == <<outcomes, acks, rejects, reconnects>>
startVars == <<brokerInit, databaseInit, retryCount, databaseConnected>>
geoVars == <<riders, nearby>>
vars == <<dbVars, svcVars, gwVars, mqVars, brokerVars, histVars, startVars, geoVars>>

\* ======================================================================
\* RabbitMQService: topology
\* ======================================================================
exchangeName == "delivery_events"
dlxName == "delivery_events_dlx"

\* this.queues: key -> QueueConfig (ttl: the queue has a messageTtl)
queuesConfig ==
  [orderCreated     |-> [name |-> "order.created",  dlk |-> "order.created.dead",  ttl |-> FALSE, deadLetter |-> FALSE],
   orderUpdated     |-> [name |-> "order.updated",  dlk |-> "order.updated.dead",  ttl |-> FALSE, deadLetter |-> FALSE],
   orderAssigned    |-> [name |-> "order.assigned", dlk |-> "order.assigned.dead", ttl |-> FALSE, deadLetter |-> FALSE],
   riderLocation    |-> [name |-> "rider.location", dlk |-> "rider.location.dead", ttl |-> TRUE,  deadLetter |-> FALSE],
   orderCreatedDLQ  |-> [name |-> "order.created.dead",  dlk |-> "", ttl |-> FALSE, deadLetter |-> TRUE],
   orderUpdatedDLQ  |-> [name |-> "order.updated.dead",  dlk |-> "", ttl |-> FALSE, deadLetter |-> TRUE],
   orderAssignedDLQ |-> [name |-> "order.assigned.dead", dlk |-> "", ttl |-> FALSE, deadLetter |-> TRUE],
   riderLocationDLQ |-> [name |-> "rider.location.dead", dlk |-> "", ttl |-> FALSE, deadLetter |-> TRUE]]

QueueKeys == DOMAIN queuesConfig
PublishKeys == {"orderCreated", "orderUpdated", "orderAssigned", "riderLocation"}
QueueNames == {queuesConfig[k].name : k \in QueueKeys}
PrimaryQueues == {queuesConfig[k].name : k \in {x \in QueueKeys : ~queuesConfig[x].deadLetter}}
DeadQueues == QueueNames \ PrimaryQueues
ConfigOf(q) == queuesConfig[CHOOSE k \in QueueKeys : queuesConfig[k].name = q]

\* String.prototype.toLowerCase on the keys of this.queues
toLowerCase(key) ==
  CASE key = "orderCreated"     -> "ordercreated"
    [] key = "orderUpdated"     -> "orderupdated"
    [] key = "orderAssigned"    -> "orderassigned"
    [] key = "riderLocation"    -> "riderlocation"
    [] key = "orderCreatedDLQ"  -> "ordercreateddlq"
    [] key = "orderUpdatedDLQ"  -> "orderupdateddlq"
    [] key = "orderAssignedDLQ" -> "orderassigneddlq"
    [] key = "riderLocationDLQ" -> "riderlocationdlq"
    [] OTHER -> key

\* variant that binds every queue under its name (used to test C27)
setupQueuesByName ==
  {[queue |-> queuesConfig[k].name,
    exchange |-> IF queuesConfig[k].deadLetter THEN dlxName ELSE exchangeName,
    key |-> queuesConfig[k].name]
     : k \in QueueKeys}

\* setupQueues: the bindings it declares
setupQueues ==
  {[queue |-> queuesConfig[k].name,
    exchange |-> IF queuesConfig[k].deadLetter THEN dlxName ELSE exchangeName,
    key |-> IF queuesConfig[k].deadLetter THEN queuesConfig[k].name ELSE toLowerCase(k)]
     : k \in QueueKeys}

\* the broker's routing: the keys in use hold no wildcard, so a topic binding
\* matches exactly like a direct one
Route(exchange, rk) ==
  {b.queue : b \in {x \in setupQueues : x.exchange = exchange /\ x.key = rk}}

\* ---------------------------------------------------------------- messages
NoPayload == [order |-> 0, rider |-> 0, status |-> "pending", by |-> 0]
Message(id, rk, rc, payload) == [id |-> id, rk |-> rk, rc |-> rc, payload |-> payload]

RECURSIVE SetToSeqByTag(_)
SetToSeqByTag(S) ==
  IF S = {} THEN <<>>
  ELSE LET d == CHOOSE x \in S : \A y \in S : x.tag <= y.tag
       IN <<d.msg>> \o SetToSeqByTag(S \ {d})

\* the broker appends m to every queue bound for (exchange, rk)
Enqueue(qs, exchange, rk, m) ==
  [q \in QueueNames |-> IF q \in Route(exchange, rk) THEN Append(qs[q], m) ELSE qs[q]]

\* the broker dead-letters m from queue q: re-published to the queue's
\* dead-letter exchange under its dead-letter routing key
DeadLetter(qs, q, m) ==
  Enqueue(qs, dlxName, ConfigOf(q).dlk, [m EXCEPT !.rk = ConfigOf(q).dlk])

\* the broker puts the unacknowledged deliveries of the channels chs back at
\* the head of their queues
Requeue(qs, chs) ==
  [q \in QueueNames |->
     SetToSeqByTag({d \in pending : d.ch \in chs /\ d.q = q /\ ~d.settled}) \o qs[q]]

\* ======================================================================
\* RabbitMQService: connection lifecycle
\* ======================================================================
\* handleConnectionError, on the pair (reconnectAttempts, timers)
handleConnectionError(s) ==
  IF s.a < maxReconnectAttempts THEN [a |-> s.a + 1, t |-> s.t + 1] ELSE s

RECURSIVE handleConnectionErrorTimes(_, _)
handleConnectionErrorTimes(n, s) ==
  IF n = 0 THEN s ELSE handleConnectionErrorTimes(n - 1, handleConnectionError(s))

ApplyConnectionError(n) ==
  LET s == handleConnectionErrorTimes(n, [a |-> reconnectAttempts, t |-> timers])
  IN /\ isConnected' = FALSE
     /\ reconnectAttempts' = s.a
     /\ timers' = s.t

\* a connect() call returns, after its try block or after its catch block (it
\* rethrows nothing); awaited: the call is the one onModuleInit awaits, whose
\* promise then resolves
ConnectReturns(awaited) ==
  /\ brokerInit' = IF awaited /\ brokerInit = "pending" THEN "resolved" ELSE brokerInit
  /\ UNCHANGED <<databaseInit, retryCount, databaseConnected, geoVars>>

\* onModuleInit calls connect() and awaits it
onModuleInit ==
  /\ ~crashed /\ ~moduleInit
  /\ moduleInit' = TRUE
  /\ brokerInit' = "pending"
  /\ connecting' = connecting + 1
  /\ UNCHANGED <<isConnected, reconnectAttempts, connection, channel, setup, timers, crashed>>
  /\ UNCHANGED <<databaseInit, retryCount, databaseConnected, geoVars>>
  /\ UNCHANGED <<dbVars, svcVars, gwVars, brokerVars, histVars>>

\* connect(): amqplib's connect() resolves; the listeners are attached
ConnectEstablished ==
  /\ ~crashed /\ connecting > 0
  /\ connSeq' = connSeq + 1
  /\ open' = open \cup {connSeq + 1}
  /\ connection' = connSeq + 1
  /\ setup' = setup \cup {connSeq + 1}
  /\ connecting' = connecting - 1
  /\ UNCHANGED <<moduleInit, isConnected, reconnectAttempts, channel, timers, crashed>>
  /\ UNCHANGED <<openCh, queues, consumers, consumeCalled, pending, msgSeq, tagSeq, losses, publishResult>>
  /\ UNCHANGED <<dbVars, svcVars, gwVars, histVars, startVars, geoVars>>

\* connect(): amqplib's connect() rejects (broker unreachable). While no
\* connection was ever opened and onModuleInit is pending, the only connect()
\* call under way is the one onModuleInit made.
ConnectRefused ==
  /\ ~crashed /\ connecting > 0
  /\ connecting' = connecting - 1
  /\ ApplyConnectionError(1)
  /\ ConnectReturns(connSeq = 0)
  /\ UNCHANGED <<moduleInit, connection, channel, setup, crashed>>
  /\ UNCHANGED <<dbVars, svcVars, gwVars, brokerVars, histVars>>

\* connect(): createChannel() resolves and this.channel is assigned
ConnectCreateChannel(c) ==
  /\ ~crashed /\ c \in setup /\ c \in open /\ c \notin openCh
  /\ channel' = c
  /\ openCh' = openCh \cup {c}
  /\ UNCHANGED <<moduleInit, isConnected, reconnectAttempts, connection, connecting, setup, timers, crashed>>
  /\ UNCHANGED <<connSeq, open, queues, consumers, consumeCalled, pending, msgSeq, tagSeq, losses, publishResult>>
  /\ UNCHANGED <<dbVars, svcVars, gwVars, histVars, startVars, geoVars>>

\* connect(): prefetch, assertExchange and setupQueues resolve. Connection 1,
\* while onModuleInit is pending, is the one opened by the call it made.
ConnectReady(c) ==
  /\ ~crashed /\ c \in setup /\ c \in openCh
  /\ setup' = setup \ {c}
  /\ isConnected' = TRUE
  /\ reconnectAttempts' = 0
  /\ reconnects' = 0
  /\ ConnectReturns(c = 1)
  /\ UNCHANGED <<moduleInit, connection, channel, connecting, timers, crashed>>
  /\ UNCHANGED <<dbVars, svcVars, gwVars, brokerVars, outcomes, acks, rejects>>

\* connect(): the connection died under createChannel / prefetch / assert*:
\* the await rejects and the catch block runs
ConnectSetupFailed(c) ==
  /\ ~crashed /\ c \in setup /\ c \notin open
  /\ setup' = setup \ {c}
  /\ ApplyConnectionError(1)
  /\ ConnectReturns(c = 1)
  /\ UNCHANGED <<moduleInit, connection, channel, connecting, crashed>>
  /\ UNCHANGED <<dbVars, svcVars, gwVars, brokerVars, histVars>>

\* setTimeout(() => this.connect(), reconnectInterval) fires
ReconnectTimer ==
  /\ ~crashed /\ timers > 0
  /\ timers' = timers - 1
  /\ connecting' = connecting + 1
  /\ reconnects' = reconnects + 1
  /\ UNCHANGED <<moduleInit, isConnected, reconnectAttempts, connection, channel, setup, crashed>>
  /\ UNCHANGED <<dbVars, svcVars, gwVars, brokerVars, outcomes, acks, rejects, startVars, geoVars>>

\* The broker loses connection c. amqplib emits 'close' on it, preceded by
\* 'error' when the loss is an error (withError); each listener runs
\* handleConnectionError. The broker requeues what c's channel held
\* unacknowledged and drops its consumers.
ConnectionCloses(c, withError) ==
  /\ ~crashed /\ c \in open
  /\ losses' = losses + 1
  /\ open' = open \ {c}
  /\ openCh' = openCh \ {c}
  /\ queues' = Requeue(queues, {c})
  /\ pending' = {IF d.ch = c THEN [d EXCEPT !.settled = TRUE] ELSE d : d \in pending}
  /\ consumers' = {x \in consumers : x.ch # c}
  /\ ApplyConnectionError(IF withError THEN 2 ELSE 1)
  /\ UNCHANGED <<moduleInit, connection, channel, connecting, setup, crashed>>
  /\ UNCHANGED <<connSeq, consumeCalled, msgSeq, tagSeq, publishResult>>
  /\ UNCHANGED <<dbVars, svcVars, gwVars, histVars, startVars, geoVars>>

\* the losses followed: MaxLosses of them
ConnectionLost(c, withError) == losses < MaxLosses /\ ConnectionCloses(c, withError)

\* a connection that a later connect() call has superseded in
\* this.connection, and that is still open, closes in its turn
SupersededConnectionLost(c, withError) ==
  /\ c # connection /\ losses <= MaxLosses
  /\ ConnectionCloses(c, withError)

\* ======================================================================
\* RabbitMQService: publish
\* ======================================================================
\* variant without the isConnected guard (used to test C12)
publishMessageThrowsClosedOnly == channel = 0 \/ channel \notin openCh
\* publishMessage throws: the guard of its first line, or channel.publish on
\* a channel the broker has closed
publishMessageThrows == ~isConnected \/ channel = 0 \/ channel \notin openCh

\* publishMessage(routingKey, data), when it does not throw: the event is
\* published under routingKey.toLowerCase() with x-retry-count 0
publishMessage(routingKey, data) ==
  /\ ~publishMessageThrows
  /\ msgSeq' = msgSeq + 1
  /\ queues' = Enqueue(queues, exchangeName, toLowerCase(routingKey),
                       Message(msgSeq + 1, toLowerCase(routingKey), 0, data))

\* publishOrderAssigned throws before publishMessage: no rider on the order
publishOrderAssignedRejects(order) == order.rider_id = 0

\* publishRiderLocation / publishOrderCreated / publishOrderUpdated called by
\* a caller outside OrdersService
publishEvent(key, data) ==
  /\ ~crashed /\ msgSeq < MaxMsgs
  /\ key \in PublishKeys \ {"orderAssigned"}
  /\ IF publishMessageThrows
       THEN /\ publishResult' = "error"
            /\ UNCHANGED <<msgSeq, queues>>
       ELSE /\ publishResult' = "ok"
            /\ publishMessage(key, data)
  /\ UNCHANGED <<connSeq, open, openCh, consumers, consumeCalled, pending, tagSeq, losses>>
  /\ UNCHANGED <<dbVars, svcVars, gwVars, mqVars, histVars, startVars, geoVars>>

\* publishOrderAssigned called by a caller outside OrdersService
publishOrderAssigned(data) ==
  /\ ~crashed /\ msgSeq < MaxMsgs
  /\ IF publishOrderAssignedRejects(data) \/ publishMessageThrows
       THEN /\ publishResult' = "error"
            /\ UNCHANGED <<msgSeq, queues>>
       ELSE /\ publishResult' = "ok"
            /\ publishMessage("orderAssigned", [NoPayload EXCEPT !.order = data.order, !.rider = data.rider_id])
  /\ UNCHANGED <<connSeq, open, openCh, consumers, consumeCalled, pending, tagSeq, losses>>
  /\ UNCHANGED <<dbVars, svcVars, gwVars, mqVars, histVars, startVars, geoVars>>

\* ======================================================================
\* RabbitMQService: consume, retry, dead-letter
\* ======================================================================
\* consumeMessages(queueName, handler), called once per queue by the application
consumeMessages(q) ==
  /\ ~crashed /\ consumeCalled[q] = "none"
  /\ IF ~isConnected \/ channel = 0 \/ channel \notin openCh
       THEN /\ consumeCalled' = [consumeCalled EXCEPT ![q] = "error"]
            /\ UNCHANGED consumers
       ELSE /\ consumeCalled' = [consumeCalled EXCEPT ![q] = "ok"]
            /\ consumers' = consumers \cup {[queue |-> q, ch |-> channel]}
  /\ UNCHANGED <<connSeq, open, openCh, queues, pending, msgSeq, tagSeq, losses, publishResult>>
  /\ UNCHANGED <<dbVars, svcVars, gwVars, mqVars, histVars, startVars, geoVars>>

\* consumeMessages(queueName, handler) called again by the application
\* once the consumer of an earlier call is gone with its channel
consumeMessagesAgain(q) ==
  /\ ~crashed /\ consumeCalled[q] = "ok"
  /\ ~\E x \in consumers : x.queue = q
  /\ isConnected /\ channel # 0 /\ channel \in openCh
  /\ consumers' = consumers \cup {[queue |-> q, ch |-> channel]}
  /\ UNCHANGED <<connSeq, open, openCh, queues, consumeCalled, pending, msgSeq, tagSeq, losses, publishResult>>
  /\ UNCHANGED <<dbVars, svcVars, gwVars, mqVars, histVars, startVars, geoVars>>

Unacked(ch) == {d \in pending : d.ch = ch /\ ~d.settled}

\* the deliveries to consumer x that the broker holds unacknowledged
UnackedBy(x) == {d \in Unacked(x.ch) : d.q = x.queue}

\* variant that lets one delivery more through (used to test C24)
WithinPrefetchInclusive(x) == Cardinality(UnackedBy(x)) <= prefetchCount
\* variant that holds deliveries back while a retry is pending (used to test C23)
WithinPrefetchNoRetryPending(x) ==
  /\ Cardinality(UnackedBy(x)) < prefetchCount
  /\ \A d \in UnackedBy(x) : d.st # "timer"
\* channel.prefetch(10): the limit applies to each consumer of the channel
WithinPrefetch(x) == Cardinality(UnackedBy(x)) < prefetchCount

\* the broker delivers the head of q to its consumer, within the prefetch
\* limit of the consumer; the callback parses it and calls the handler
Deliver(q) ==
  /\ Len(queues[q]) > 0
  /\ \E x \in consumers :
       /\ x.queue = q /\ x.ch \in openCh
       /\ WithinPrefetch(x)
       /\ pending' = pending \cup
            {[msg |-> Head(queues[q]), q |-> q, ch |-> x.ch, tag |-> tagSeq + 1,
              st |-> "handler", n |-> 0, delay |-> 0, settled |-> FALSE]}
  /\ queues' = [queues EXCEPT ![q] = Tail(@)]
  /\ tagSeq' = tagSeq + 1
  /\ UNCHANGED <<connSeq, open, openCh, consumers, consumeCalled, msgSeq, losses, publishResult>>
  /\ UNCHANGED <<dbVars, svcVars, gwVars, mqVars, histVars, startVars, geoVars>>

\* what a call on this.channel for delivery d meets: the channel the delivery
\* came on ("own"), a channel the broker has closed ("closed": amqplib throws
\* IllegalOperationError), or an open channel that never saw d's delivery
\* tag ("other": the broker closes it with 406 PRECONDITION_FAILED)
ChannelFor(d) ==
  IF channel \notin openCh THEN "closed"
  ELSE IF channel = d.ch THEN "own" ELSE "other"

\* process.on('uncaughtException') runs process.exit(1): the process is gone,
\* the broker closes its connections and requeues what they held
\* unacknowledged, the database rolls the open transactions back. qs: the
\* queues as the failing callback left them.
ProcessExit(qs) ==
  /\ crashed' = TRUE
  /\ isConnected' = FALSE
  /\ timers' = 0
  /\ connecting' = 0
  /\ setup' = {}
  /\ open' = {}
  /\ openCh' = {}
  /\ consumers' = {}
  /\ queues' = Requeue(qs, openCh)
  /\ pending' = {}
  /\ rowLock' = [o \in OrderIds |-> 0]
  /\ calls' = [p \in Calls |->
                 IF calls[p].pc \in {"idle", "done"} THEN calls[p]
                 ELSE [calls[p] EXCEPT !.pc = "done", !.result.kind = "ProcessExit"]]
  /\ UNCHANGED <<moduleInit, reconnectAttempts, connection, channel>>
  /\ UNCHANGED <<connSeq, consumeCalled, msgSeq, tagSeq, losses, publishResult>>
  /\ UNCHANGED <<orders, calculated_orders, logs, order_total_amount_history, orderSeq>>
  /\ UNCHANGED <<gwVars, reconnects>>

\* the frame of a consumer callback step that does not end the process
CallbackFrame ==
  /\ UNCHANGED <<connSeq, open, openCh, consumers, consumeCalled, msgSeq, tagSeq, losses, publishResult>>
  /\ UNCHANGED <<dbVars, svcVars, gwVars, mqVars, reconnects>>

\* ======================================================================
\* DatabaseService: start-up
\* ======================================================================
\* DatabaseService.onModuleInit calls validateConnection() and awaits it
databaseOnModuleInit ==
  /\ ~crashed /\ databaseInit = "none"
  /\ databaseInit' = "pending"
  /\ UNCHANGED <<brokerInit, retryCount, databaseConnected, geoVars>>
  /\ UNCHANGED <<dbVars, svcVars, gwVars, mqVars, brokerVars, histVars>>

\* validateConnection: 'SELECT 1' resolves
validateConnectionOk ==
  /\ ~crashed /\ databaseInit = "pending"
  /\ databaseConnected' = TRUE
  /\ databaseInit' = "resolved"
  /\ UNCHANGED <<brokerInit, retryCount, geoVars>>
  /\ UNCHANGED <<dbVars, svcVars, gwVars, mqVars, brokerVars, histVars>>

\* validateConnection: retryCount < this.maxRetries
validateRetryAllowed == retryCount < databaseMaxRetries

\* validateConnection: 'SELECT 1' rejects. Below the bound the call waits
\* retryDelay and calls itself with retryCount + 1; at the bound it throws,
\* onModuleInit rejects, and bootstrap()'s catch block runs process.exit(1)
validateConnectionFail ==
  /\ ~crashed /\ databaseInit = "pending"
  /\ databaseConnected' = FALSE
  /\ IF validateRetryAllowed
       THEN /\ retryCount' = retryCount + 1
            /\ UNCHANGED <<brokerInit, databaseInit, geoVars>>
            /\ UNCHANGED <<dbVars, svcVars, gwVars, mqVars, brokerVars, histVars>>
       ELSE /\ databaseInit' = "rejected"
            /\ ProcessExit(queues)
            /\ UNCHANGED <<brokerInit, retryCount, geoVars>>
            /\ UNCHANGED <<outcomes, acks, rejects>>

\* the catch block of the callback for delivery d: the incremented
\* x-retry-count decides between a retry timer and reject(msg, false)
\* variant that does not count the failure (used to test C36)
retryCountOfUnchanged(d) == d.msg.rc
\* variant that counts a failure twice (used to test C11)
retryCountOfTwice(d) == d.msg.rc + 2
retryCountOf(d) == d.msg.rc + 1
\* variant that takes the count before the increment (used to test C26)
retryDelayFromOldCount(n) == (2 ^ (n - 1)) * 1000
\* const delay = Math.pow(2, retryCount) * 1000, in milliseconds (n: retryCount)
retryDelay(n) == (2 ^ n) * 1000

\* variant allowing one retry fewer (used to test C35)
RetryAllowedBelowMax(d) == retryCountOf(d) < maxRetries
\* variant allowing one retry more (used to test C9)
RetryAllowedOnceMore(d) == retryCountOf(d) <= maxRetries + 1
RetryAllowed(d) == retryCountOf(d) <= maxRetries

CatchBlock(d) ==
  IF RetryAllowed(d)
    THEN /\ pending' = (pending \ {d}) \cup
                        {[d EXCEPT !.st = "timer", !.n = retryCountOf(d),
                                   !.delay = retryDelay(retryCountOf(d))]}
         /\ UNCHANGED <<queues, rejects>>
         /\ CallbackFrame
    ELSE CASE ChannelFor(d) = "own" ->
                /\ queues' = DeadLetter(queues, d.q, d.msg)
                /\ rejects' = [rejects EXCEPT ![d.msg.id] = @ + 1]
                /\ pending' = pending \ {d}
                /\ CallbackFrame
           [] ChannelFor(d) = "closed" ->
                \* reject throws inside the catch block: the callback's promise
                \* rejects, which the unhandledRejection handler only logs
                /\ pending' = pending \ {d}
                /\ UNCHANGED <<queues, rejects>>
                /\ CallbackFrame
           [] OTHER ->
                /\ UNCHANGED rejects
                /\ ProcessExit(queues)

\* variant that rejects a handled message instead of acknowledging it (used
\* to test C8)
HandlerSucceedRejects(d) ==
  /\ ~crashed /\ d \in pending /\ d.st = "handler"
  /\ UNCHANGED <<startVars, geoVars>>
  /\ outcomes' = [outcomes EXCEPT ![d.msg.id] = Append(@, "ok")]
  /\ queues' = DeadLetter(queues, d.q, d.msg)
  /\ rejects' = [rejects EXCEPT ![d.msg.id] = @ + 1]
  /\ pending' = pending \ {d}
  /\ UNCHANGED acks
  /\ CallbackFrame

\* handler(data) resolves, then this.channel.ack(msg)
HandlerSucceed(d) ==
  /\ ~crashed /\ d \in pending /\ d.st = "handler"
  /\ UNCHANGED <<startVars, geoVars>>
  /\ outcomes' = [outcomes EXCEPT ![d.msg.id] = Append(@, "ok")]
  /\ CASE ChannelFor(d) = "own" ->
            /\ acks' = [acks EXCEPT ![d.msg.id] = @ + 1]
            /\ pending' = pending \ {d}
            /\ UNCHANGED <<queues, rejects>>
            /\ CallbackFrame
       [] ChannelFor(d) = "closed" ->
            \* ack throws inside the try block: the catch block runs
            /\ UNCHANGED acks
            /\ CatchBlock(d)
       [] OTHER ->
            /\ UNCHANGED <<acks, rejects>>
            /\ ProcessExit(queues)

\* handler(data) rejects (or JSON.parse throws): the catch block runs
HandlerFail(d) ==
  /\ ~crashed /\ d \in pending /\ d.st = "handler"
  /\ UNCHANGED <<startVars, geoVars>>
  /\ outcomes' = [outcomes EXCEPT ![d.msg.id] = Append(@, "fail")]
  /\ UNCHANGED acks
  /\ CatchBlock(d)

\* variant that re-publishes under the queue's name (used to test C25)
RetryCopyUnderQueueName(d) == [d.msg EXCEPT !.rc = d.n, !.rk = d.q]
\* the message the retry timer publishes: msg.fields.routingKey, msg.content
\* and msg.properties, with x-retry-count set to the incremented count
RetryCopy(d) == [d.msg EXCEPT !.rc = d.n]

\* the retry timer of delivery d fires: re-publish under the delivery's
\* routing key with the incremented x-retry-count, then ack the original
RetryTimer(d) ==
  /\ ~crashed /\ d \in pending /\ d.st = "timer"
  /\ UNCHANGED <<histVars, startVars, geoVars>>
  /\ LET copy == RetryCopy(d)
         qs == Enqueue(queues, exchangeName, copy.rk, copy)
     IN CASE ChannelFor(d) = "own" ->
               /\ queues' = qs
               /\ pending' = pending \ {d}
               /\ CallbackFrame
          [] ChannelFor(d) = "closed" ->
               \* publish throws in the timer callback: uncaught exception
               ProcessExit(queues)
          [] OTHER ->
               \* the copy is published, the ack names an unknown delivery tag
               ProcessExit(qs)

\* the head of a queue with a messageTtl expires: the broker dead-letters it
TTLExpire(q) ==
  /\ ConfigOf(q).ttl /\ Len(queues[q]) > 0
  /\ queues' = DeadLetter([queues EXCEPT ![q] = Tail(@)], q, Head(queues[q]))
  /\ UNCHANGED <<connSeq, open, openCh, consumers, consumeCalled, pending, msgSeq, tagSeq, losses, publishResult>>
  /\ UNCHANGED <<dbVars, svcVars, gwVars, mqVars, histVars, startVars, geoVars>>

\* ======================================================================
\* OrdersService over PostgreSQL
\* ======================================================================
NoRow == [exists |-> FALSE, rider_id |-> 0, rider_assigned |-> FALSE,
          status |-> "pending", calculated_order_id |-> 0]
NoResult == [kind |-> "none", message |-> "", order |-> NoRow, id |-> 0]
IdleCall == [op |-> "none", orderId |-> 0, riderId |-> 0, status |-> "pending",
             description |-> FALSE, coordsValid |-> FALSE, pc |-> "idle",
             order |-> NoRow, updatedOrder |-> NoRow,
             wRow |-> NoRow, wLogs |-> <<>>, result |-> NoResult,
             overlaps |-> {}]

\* the calls in progress when a call starts (history: which calls overlap)
InProgress == {p \in Calls : calls[p].pc \notin {"idle", "done"}}

\* the row a statement of call p sees for order o: on the transaction handle
\* (trx) the transaction's own write, on the pool the committed row
RowOnTrx(p, o) == IF calls[p].wRow.exists /\ calls[p].orderId = o THEN calls[p].wRow ELSE orders[o]
RowOnPool(o) == orders[o]

Thrown(kind, message) == [NoResult EXCEPT !.kind = kind, !.message = message]

\* variant whose log lines are written outside the transaction (used to test C22)
RollbackKeepsLogs(p, result) ==
  /\ calls' = [calls EXCEPT ![p].pc = "done", ![p].wRow = NoRow, ![p].wLogs = <<>>,
                            ![p].result = result]
  /\ rowLock' = [o \in OrderIds |-> IF rowLock[o] = p THEN 0 ELSE rowLock[o]]
  /\ logs' = logs \o calls[p].wLogs
  /\ UNCHANGED <<orders, calculated_orders, order_total_amount_history>>

\* the transaction callback of call p rejects with `result`: knex rolls back
Rollback(p, result) ==
  /\ calls' = [calls EXCEPT ![p].pc = "done", ![p].wRow = NoRow, ![p].wLogs = <<>>,
                            ![p].result = result]
  /\ rowLock' = [o \in OrderIds |-> IF rowLock[o] = p THEN 0 ELSE rowLock[o]]
  /\ UNCHANGED <<orders, calculated_orders, logs, order_total_amount_history>>

\* the frame of a service step that touches neither the gateway nor the bus
ServiceFrame == UNCHANGED <<gwVars, mqVars, brokerVars, histVars, startVars, geoVars>>

\* ------------------------------------------------------------ assignRider
\* variant without the guard (used to test C2)
AlreadyAssignedUnguarded(order) == FALSE

\* `if (order.rider_assigned) throw ...`
AlreadyAssigned(order) == order.rider_assigned

\* variant without the guard (used to test C5)
OrderMissingUnguarded(order) == FALSE

\* `if (!order) throw new NotFoundException(...)`
OrderMissing(order) == ~order.exists

\* assignRider(orderId, riderId): the transaction starts and SELECTs the order
assignRider(p, o, r) ==
  /\ ~crashed /\ calls[p].pc = "idle"
  /\ LET order == RowOnTrx(p, o)
         c == [calls[p] EXCEPT !.op = "assignRider", !.orderId = o, !.riderId = r, !.order = order,
                              !.overlaps = InProgress]
     IN IF OrderMissing(order)
          THEN calls' = [calls EXCEPT ![p] = [c EXCEPT !.pc = "done",
                           !.result = Thrown("NotFoundException", "Order not found")]]
          ELSE IF AlreadyAssigned(order)
            THEN calls' = [calls EXCEPT ![p] = [c EXCEPT !.pc = "done",
                             !.result = Thrown("Error", "Order already has an assigned rider")]]
            ELSE calls' = [calls EXCEPT ![p] = [c EXCEPT !.pc = "update"]]
  /\ UNCHANGED <<orders, calculated_orders, logs, order_total_amount_history, orderSeq, rowLock>>
  /\ ServiceFrame

\* trx('orders').where('id', orderId).update({rider_id, rider_assigned: true}):
\* waits while another transaction holds the row; an absent row makes the
\* statement update nothing
assignRiderUpdate(p) ==
  /\ ~crashed /\ calls[p].op = "assignRider" /\ calls[p].pc = "update"
  /\ orders[calls[p].orderId].exists => rowLock[calls[p].orderId] = 0
  /\ rowLock' = [rowLock EXCEPT ![calls[p].orderId] = IF orders[calls[p].orderId].exists THEN p ELSE @]
  /\ calls' = [calls EXCEPT ![p].pc = "log",
                 ![p].wRow = IF orders[calls[p].orderId].exists
                               THEN [orders[calls[p].orderId] EXCEPT
                                       !.rider_id = calls[p].riderId, !.rider_assigned = TRUE]
                               ELSE NoRow]
  /\ UNCHANGED <<orders, calculated_orders, logs, order_total_amount_history, orderSeq>>
  /\ ServiceFrame

\* trx('logs').insert({description: `Rider (ID: ${riderId}) assigned to order`})
assignRiderLog(p) ==
  /\ ~crashed /\ calls[p].op = "assignRider" /\ calls[p].pc = "log"
  /\ calls' = [calls EXCEPT ![p].pc = "getOrder",
                 ![p].wLogs = Append(@, [order_id |-> calls[p].orderId,
                                          description |-> "Rider assigned to order",
                                          rider |-> calls[p].riderId, by |-> p])]
  /\ UNCHANGED dbVars
  /\ ServiceFrame

\* getOrderById(orderId) as assignRider and updateOrderStatus call it:
\* without the transaction handle, so on the pool
getOrderById(p) ==
  /\ ~crashed /\ calls[p].op \in {"assignRider", "updateOrderStatus"} /\ calls[p].pc = "getOrder"
  /\ LET orderData == RowOnPool(calls[p].orderId)
     IN IF OrderMissing(orderData)
          THEN Rollback(p, Thrown("NotFoundException", "Order not found"))
          ELSE /\ calls' = [calls EXCEPT ![p].pc = "publish", ![p].updatedOrder = orderData]
               /\ UNCHANGED <<orders, calculated_orders, logs, order_total_amount_history, rowLock>>
  /\ UNCHANGED orderSeq
  /\ ServiceFrame

\* the frame of a publishing step of a service call
PublishFrame ==
  /\ UNCHANGED <<connSeq, open, openCh, consumers, consumeCalled, pending, tagSeq, losses, publishResult>>
  /\ UNCHANGED <<gwVars, mqVars, histVars, startVars, geoVars, orderSeq>>

\* a publishing step of call p: publishMessage throws and the transaction
\* rolls back, or the event is published and the callback goes on to return
PublishOrFail(p, key, data) ==
  IF publishMessageThrows
    THEN /\ Rollback(p, Thrown("Error", "RabbitMQ connection not available"))
         /\ UNCHANGED <<msgSeq, queues>>
    ELSE /\ publishMessage(key, data)
         /\ calls' = [calls EXCEPT ![p].pc = "commit"]
         /\ UNCHANGED <<orders, calculated_orders, logs, order_total_amount_history, rowLock>>

\* this.rabbitMQService.publishOrderAssigned(updatedOrder)
assignRiderPublish(p) ==
  /\ ~crashed /\ calls[p].op = "assignRider" /\ calls[p].pc = "publish"
  /\ IF publishOrderAssignedRejects(calls[p].updatedOrder)
       THEN /\ Rollback(p, Thrown("Error", "Cannot publish order assignment: no rider assigned"))
            /\ UNCHANGED <<msgSeq, queues>>
       ELSE PublishOrFail(p, "orderAssigned",
              [order |-> calls[p].orderId, rider |-> calls[p].updatedOrder.rider_id,
               status |-> calls[p].updatedOrder.status, by |-> p])
  /\ PublishFrame

\* ------------------------------------------------------ updateOrderStatus
\* updateOrderStatus(orderId, status, description): the transaction starts and
\* UPDATEs the status, waiting while another transaction holds the row; an
\* absent row makes the statement update nothing
updateOrderStatus(p, o, st, desc) ==
  /\ ~crashed /\ calls[p].pc = "idle"
  /\ orders[o].exists => rowLock[o] = 0
  /\ rowLock' = [rowLock EXCEPT ![o] = IF orders[o].exists THEN p ELSE @]
  /\ calls' = [calls EXCEPT ![p] = [calls[p] EXCEPT
                 !.op = "updateOrderStatus", !.orderId = o, !.status = st, !.description = desc,
                 !.overlaps = InProgress,
                 !.pc = IF desc THEN "log" ELSE "getOrder",
                 !.wRow = IF orders[o].exists THEN [orders[o] EXCEPT !.status = st] ELSE NoRow]]
  /\ UNCHANGED <<orders, calculated_orders, logs, order_total_amount_history, orderSeq>>
  /\ ServiceFrame

\* `if (description) trx('logs').insert(...)`: logs.order_id references
\* orders.id, so the insert fails when the order row is absent
updateOrderStatusLog(p) ==
  /\ ~crashed /\ calls[p].op = "updateOrderStatus" /\ calls[p].pc = "log"
  /\ IF ~RowOnTrx(p, calls[p].orderId).exists
       THEN Rollback(p, Thrown("DatabaseError", "logs_order_id_foreign"))
       ELSE /\ calls' = [calls EXCEPT ![p].pc = "getOrder",
                           ![p].wLogs = Append(@, [order_id |-> calls[p].orderId,
                                                    description |-> "status changed",
                                                    rider |-> 0, by |-> p])]
            /\ UNCHANGED <<orders, calculated_orders, logs, order_total_amount_history, rowLock>>
  /\ UNCHANGED orderSeq
  /\ ServiceFrame

\* this.rabbitMQService.publishOrderUpdated(updatedOrder)
updateOrderStatusPublish(p) ==
  /\ ~crashed /\ calls[p].op = "updateOrderStatus" /\ calls[p].pc = "publish"
  /\ PublishOrFail(p, "orderUpdated",
       [order |-> calls[p].orderId, rider |-> calls[p].updatedOrder.rider_id,
        status |-> calls[p].updatedOrder.status, by |-> p])
  /\ PublishFrame

\* ------------------------------------------------------------ createOrder
\* createOrder(orderData): the transaction starts and INSERTs the pricing
\* snapshot, the order row, the first log line and the amount history. Both
\* tables draw their id from a sequence, which a rollback does not rewind;
\* the two sequences advance together.
createOrder(p, coordsValid) ==
  /\ ~crashed /\ calls[p].pc = "idle"
  /\ orderSeq < MaxOrders
  /\ orderSeq' = orderSeq + 1
  /\ calls' = [calls EXCEPT ![p] = [calls[p] EXCEPT
                 !.op = "createOrder", !.orderId = orderSeq + 1, !.coordsValid = coordsValid,
                 !.overlaps = InProgress,
                 !.pc = IF coordsValid THEN "notify" ELSE "publish",
                 !.wRow = [NoRow EXCEPT !.exists = TRUE, !.calculated_order_id = orderSeq + 1],
                 !.wLogs = <<[order_id |-> orderSeq + 1, description |-> "Order received",
                              rider |-> 0, by |-> p]>>]]
  /\ UNCHANGED <<orders, calculated_orders, logs, order_total_amount_history, rowLock>>
  /\ ServiceFrame

\* variant that emits to every open connection (used to test C15)
sendOrderToRiderEveryone(riderId, o) ==
  {[socket |-> x, event |-> "newOrder", order |-> o, rider |-> riderId] : x \in connected}

\* DispatchGateway.sendOrderToRider(riderId, order): the emission, if any
sendOrderToRider(riderId, o) ==
  IF riderSockets[riderId] # 0
    THEN {[socket |-> riderSockets[riderId], event |-> "newOrder", order |-> o, rider |-> riderId]}
    ELSE {}

\* `if (!isNaN(lat) && !isNaN(lng))`: findNearbyAvailableRiders answers
\* `nearbyRiders`, getOrderById(newOrderId, trx) reads the new order on the
\* transaction, and every nearby rider is sent the order
createOrderNotify(p, nearbyRiders) ==
  /\ ~crashed /\ calls[p].op = "createOrder" /\ calls[p].pc = "notify"
  /\ RowOnTrx(p, calls[p].orderId).exists
  /\ emitted' = emitted \cup UNION {sendOrderToRider(r, calls[p].orderId) : r \in nearbyRiders}
  /\ emitCount' = emitCount + Cardinality(UNION {sendOrderToRider(r, calls[p].orderId) : r \in nearbyRiders})
  /\ calls' = [calls EXCEPT ![p].pc = "publish"]
  /\ UNCHANGED <<dbVars, riderSockets, mqVars, brokerVars, histVars, startVars, geoVars>>
  /\ UNCHANGED <<dispatchSockets, connected, socketSeq, gwOp>>

\* getOrderById(newOrderId, trx), then publishOrderCreated(createdOrder)
createOrderPublish(p) ==
  /\ ~crashed /\ calls[p].op = "createOrder" /\ calls[p].pc = "publish"
  /\ PublishOrFail(p, "orderCreated",
       [order |-> calls[p].orderId, rider |-> RowOnTrx(p, calls[p].orderId).rider_id,
        status |-> RowOnTrx(p, calls[p].orderId).status, by |-> p])
  /\ PublishFrame

\* ----------------------------------------------------------------- commit
\* the transaction callback of call p has resolved: knex commits
Commit(p) ==
  /\ ~crashed /\ calls[p].pc = "commit"
  /\ orders' = IF calls[p].wRow.exists
                 THEN [orders EXCEPT ![calls[p].orderId] = calls[p].wRow] ELSE orders
  /\ logs' = logs \o calls[p].wLogs
  /\ calculated_orders' = IF calls[p].op = "createOrder"
                            THEN calculated_orders \cup {calls[p].wRow.calculated_order_id}
                            ELSE calculated_orders
  /\ order_total_amount_history' = IF calls[p].op = "createOrder"
                                     THEN order_total_amount_history \cup {calls[p].orderId}
                                     ELSE order_total_amount_history
  /\ rowLock' = [o \in OrderIds |-> IF rowLock[o] = p THEN 0 ELSE rowLock[o]]
  /\ calls' = [calls EXCEPT ![p].pc = "done", ![p].wRow = NoRow, ![p].wLogs = <<>>,
                 ![p].result = [kind |-> "ok", message |-> "",
                                order |-> calls[p].updatedOrder,
                                id |-> IF calls[p].op = "createOrder" THEN calls[p].orderId ELSE 0]]
  /\ UNCHANGED orderSeq
  /\ ServiceFrame

\* ======================================================================
\* DispatchGateway
\* ======================================================================
SocketIds == 1..MaxSockets
NoGatewayCall == [op |-> "none", rider |-> 0, socket |-> 0, result |-> "none", failing |-> {}]
GatewayCall(op, rider, socket, result, failing) ==
  [op |-> op, rider |-> rider, socket |-> socket, result |-> result, failing |-> failing]
\* the sockets on which emit throws during one gateway call: none, or one of
\* the sockets the call emits to
EmitFailures(targets) == {{}} \cup {{x} : x \in targets}

\* Set.prototype.add / delete on a Set iterated in insertion order
SetAdd(seq, x) == IF \E i \in 1..Len(seq) : seq[i] = x THEN seq ELSE Append(seq, x)
SetDelete(seq, x) == SelectSeq(seq, LAMBDA y : y # x)
SetOf(seq) == {seq[i] : i \in 1..Len(seq)}

\* this.server.to(socketId).emit(event, data), as the record of the call
Emission(socketId, event, rider, o) == [socket |-> socketId, event |-> event, order |-> o, rider |-> rider]

\* broadcastToDispatchers(event, data): forEach over dispatchSockets inside
\* one try block; `failing` are the sockets on which emit throws. The
\* sockets whose emit call returns: those before the first failing one.
BroadcastReached(failing) ==
  {dispatchSockets[i] : i \in {j \in 1..Len(dispatchSockets) :
                                 \A k \in 1..j : dispatchSockets[k] \notin failing}}

broadcastToDispatchers(event, rider, o, failing) ==
  /\ emitted' = emitted \cup {Emission(x, event, rider, o) : x \in BroadcastReached(failing)}
  /\ emitCount' = emitCount + Cardinality(BroadcastReached(failing))

\* the frame of a gateway step
GatewayFrame == UNCHANGED <<dbVars, svcVars, mqVars, brokerVars, histVars, startVars, geoVars>>

\* socket.io accepts a connection: a fresh socket id
SocketConnect ==
  /\ socketSeq < MaxSockets
  /\ socketSeq' = socketSeq + 1
  /\ connected' = connected \cup {socketSeq + 1}
  /\ UNCHANGED <<riderSockets, emitted, dispatchSockets, gwOp, emitCount>>
  /\ GatewayFrame

\* a connection closes; the gateway declares no handleDisconnect, so no
\* code of it runs
SocketDisconnect(client) ==
  /\ client \in connected
  /\ connected' = connected \ {client}
  /\ UNCHANGED <<riderSockets, emitted, dispatchSockets, socketSeq, gwOp, emitCount>>
  /\ GatewayFrame

\* variant that keeps the first registration of a rider (used to test C13)
handleRegisterRiderKeepsFirst(client, riderId, failing) ==
  /\ client \in connected /\ emitCount < MaxEmits
  /\ riderSockets' = [riderSockets EXCEPT ![riderId] = IF @ = 0 THEN client ELSE @]
  /\ broadcastToDispatchers("riderConnected", riderId, 0, failing)
  /\ gwOp' = GatewayCall("registerRider", riderId, client, "returned", failing)
  /\ UNCHANGED <<dispatchSockets, connected, socketSeq>>
  /\ GatewayFrame

\* @SubscribeMessage('registerRider')
handleRegisterRider(client, riderId, failing) ==
  /\ client \in connected /\ emitCount < MaxEmits
  /\ riderSockets' = [riderSockets EXCEPT ![riderId] = client]
  /\ broadcastToDispatchers("riderConnected", riderId, 0, failing)
  /\ gwOp' = GatewayCall("registerRider", riderId, client, "returned", failing)
  /\ UNCHANGED <<dispatchSockets, connected, socketSeq>>
  /\ GatewayFrame

\* variant that accepts any client (used to test C14)
StoredHandleIsAnyone(riderId, client) == riderSockets[riderId] # 0

\* variant that accepts a client registered for any rider (used to test C31)
StoredHandleIsRegistered(riderId, client) == \E r \in RiderIds : riderSockets[r] = client

\* `this.riderSockets.get(data.riderId) === client.id`
StoredHandleIs(riderId, client) == riderSockets[riderId] = client

\* @SubscribeMessage('unregisterRider')
handleUnregisterRider(client, riderId, failing) ==
  /\ client \in connected /\ emitCount < MaxEmits
  /\ IF StoredHandleIs(riderId, client)
       THEN /\ riderSockets' = [riderSockets EXCEPT ![riderId] = 0]
            /\ broadcastToDispatchers("riderDisconnected", riderId, 0, failing)
       ELSE UNCHANGED <<riderSockets, emitted, emitCount>>
  /\ gwOp' = GatewayCall("unregisterRider", riderId, client, "returned", failing)
  /\ UNCHANGED <<dispatchSockets, connected, socketSeq>>
  /\ GatewayFrame

\* @SubscribeMessage('registerDispatcher')
handleRegisterDispatcher(client) ==
  /\ client \in connected
  /\ dispatchSockets' = SetAdd(dispatchSockets, client)
  /\ gwOp' = GatewayCall("registerDispatcher", 0, client, "returned", {})
  /\ UNCHANGED <<riderSockets, emitted, connected, socketSeq, emitCount>>
  /\ GatewayFrame

\* @SubscribeMessage('unregisterDispatcher')
handleUnregisterDispatcher(client) ==
  /\ client \in connected
  /\ dispatchSockets' = SetDelete(dispatchSockets, client)
  /\ gwOp' = GatewayCall("unregisterDispatcher", 0, client, "returned", {})
  /\ UNCHANGED <<riderSockets, emitted, connected, socketSeq, emitCount>>
  /\ GatewayFrame

\* @SubscribeMessage('orderAccepted')
handleOrderAccepted(client, riderId, o, failing) ==
  /\ client \in connected /\ emitCount < MaxEmits
  /\ IF StoredHandleIs(riderId, client)
       THEN broadcastToDispatchers("orderAccepted", riderId, o, failing)
       ELSE UNCHANGED <<emitted, emitCount>>
  /\ gwOp' = GatewayCall("orderAccepted", riderId, client, "returned", failing)
  /\ UNCHANGED <<riderSockets, dispatchSockets, connected, socketSeq>>
  /\ GatewayFrame

\* @SubscribeMessage('orderRejected')
handleOrderRejected(client, riderId, o, failing) ==
  /\ client \in connected /\ emitCount < MaxEmits
  /\ IF StoredHandleIs(riderId, client)
       THEN broadcastToDispatchers("orderRejected", riderId, o, failing)
       ELSE UNCHANGED <<emitted, emitCount>>
  /\ gwOp' = GatewayCall("orderRejected", riderId, client, "returned", failing)
  /\ UNCHANGED <<riderSockets, dispatchSockets, connected, socketSeq>>
  /\ GatewayFrame

\* variant that also records the rider on the order (used to test C30)
handleOrderDeliveredUpdatesOrder(client, riderId, o, failing) ==
  /\ client \in connected /\ emitCount < MaxEmits
  /\ IF StoredHandleIs(riderId, client)
       THEN /\ broadcastToDispatchers("orderDelivered", riderId, o, failing)
            /\ orders' = [orders EXCEPT ![o].rider_id = riderId, ![o].rider_assigned = TRUE]
       ELSE UNCHANGED <<emitted, emitCount, orders>>
  /\ gwOp' = GatewayCall("orderDelivered", riderId, client, "returned", failing)
  /\ UNCHANGED <<riderSockets, dispatchSockets, connected, socketSeq>>
  /\ UNCHANGED <<calculated_orders, logs, order_total_amount_history, orderSeq, rowLock>>
  /\ UNCHANGED <<svcVars, mqVars, brokerVars, histVars, startVars, geoVars>>

\* @SubscribeMessage('orderDelivered')
handleOrderDelivered(client, riderId, o, failing) ==
  /\ client \in connected /\ emitCount < MaxEmits
  /\ IF StoredHandleIs(riderId, client)
       THEN broadcastToDispatchers("orderDelivered", riderId, o, failing)
       ELSE UNCHANGED <<emitted, emitCount>>
  /\ gwOp' = GatewayCall("orderDelivered", riderId, client, "returned", failing)
  /\ UNCHANGED <<riderSockets, dispatchSockets, connected, socketSeq>>
  /\ GatewayFrame

\* sendOrderToRider(riderId, order) called by the orders and dispatch
\* controllers: true when a socket id is stored for the rider and the emit
\* call returns; false when none is stored, and from the catch block when
\* emit throws
SendOrder(riderId, o, failing) ==
  /\ emitCount < MaxEmits
  /\ IF riderSockets[riderId] \in failing
       THEN /\ UNCHANGED <<emitted, emitCount>>
            /\ gwOp' = GatewayCall("sendOrderToRider", riderId, riderSockets[riderId], "false", failing)
       ELSE /\ emitted' = emitted \cup sendOrderToRider(riderId, o)
            /\ emitCount' = emitCount + Cardinality(sendOrderToRider(riderId, o))
            /\ gwOp' = GatewayCall("sendOrderToRider", riderId, riderSockets[riderId],
                                   IF sendOrderToRider(riderId, o) # {} THEN "true" ELSE "false", failing)
  /\ UNCHANGED <<riderSockets, dispatchSockets, connected, socketSeq>>
  /\ GatewayFrame

\* DispatchGateway under clients that connect, send events and disconnect;
\* one rider identity, claimed by any of the sockets
GatewayOrders == {1}
GatewayRiders == {1}
GatewayNext ==
  \/ SocketConnect
  \/ \E client \in SocketIds : SocketDisconnect(client)
  \/ \E client \in SocketIds, riderId \in GatewayRiders, failing \in EmitFailures(SetOf(dispatchSockets)) :
       handleRegisterRider(client, riderId, failing)
  \/ \E client \in SocketIds, riderId \in GatewayRiders, failing \in EmitFailures(SetOf(dispatchSockets)) :
       handleUnregisterRider(client, riderId, failing)
  \/ \E client \in SocketIds : handleRegisterDispatcher(client)
  \/ \E client \in SocketIds : handleUnregisterDispatcher(client)
  \/ \E riderId \in GatewayRiders, o \in GatewayOrders :
       \E failing \in EmitFailures({riderSockets[riderId]} \ {0}) : SendOrder(riderId, o, failing)

InitialRows ==
  {[NoRow EXCEPT !.exists = TRUE, !.calculated_order_id = 1]} \cup
  {[NoRow EXCEPT !.exists = TRUE, !.calculated_order_id = 1, !.rider_id = r, !.rider_assigned = TRUE]
     : r \in RiderIds}

InitialLogs(rows) ==
  LET RECURSIVE Build(_)
      Build(o) ==
        IF o > InitialOrders THEN <<>>
        ELSE <<[order_id |-> o, description |-> "Order received", rider |-> 0, by |-> 0]>>
             \o (IF rows[o].rider_assigned
                   THEN <<[order_id |-> o, description |-> "Rider assigned to order",
                           rider |-> rows[o].rider_id, by |-> 0]>>
                   ELSE <<>>)
             \o Build(o + 1)
  IN Build(1)

\* the database at start-up, its orders table holding `rows`
DatabaseInit(rows) ==
  /\ orders = [o \in OrderIds |->
                 IF o <= InitialOrders THEN [rows[o] EXCEPT !.calculated_order_id = o] ELSE NoRow]
  /\ logs = InitialLogs(rows)
  /\ calculated_orders = 1..InitialOrders
  /\ order_total_amount_history = 1..InitialOrders
  /\ orderSeq = InitialOrders
  /\ rowLock = [o \in OrderIds |-> 0]

\* the ids an event can get: one per publish of a caller or of a service
\* call, or one per message of a backlog one larger than the prefetch limit
Backlog == prefetchCount + 1
EventIds == 1..(MaxMsgs + MaxCalls + Backlog)

\* OrdersService, DispatchGateway and RabbitMQService after construction,
\* the broker holding nothing yet
ProcessInit ==
  /\ calls = [p \in Calls |-> IdleCall]
  /\ riderSockets = [r \in RiderIds |-> 0]
  /\ emitted = {}
  /\ dispatchSockets = <<>>
  /\ connected = {}
  /\ socketSeq = 0
  /\ gwOp = NoGatewayCall
  /\ emitCount = 0
  /\ moduleInit = FALSE
  /\ isConnected = FALSE
  /\ reconnectAttempts = 0
  /\ connection = 0
  /\ channel = 0
  /\ connecting = 0
  /\ setup = {}
  /\ timers = 0
  /\ crashed = FALSE
  /\ connSeq = 0
  /\ open = {}
  /\ openCh = {}
  /\ queues = [q \in QueueNames |-> <<>>]
  /\ consumers = {}
  /\ consumeCalled = [q \in PrimaryQueues |-> "none"]
  /\ pending = {}
  /\ msgSeq = 0
  /\ tagSeq = 0
  /\ losses = 0
  /\ publishResult = "none"
  /\ outcomes = [i \in EventIds |-> <<>>]
  /\ acks = [i \in EventIds |-> 0]
  /\ rejects = [i \in EventIds |-> 0]
  /\ reconnects = 0
  /\ brokerInit = "none"

\* ======================================================================
\* RidersService: findNearbyAvailableRiders
\* ======================================================================
\* the positions used, (latitude, longitude) in degrees:
\*   1: (6.5243, 3.3792)   2: (6.5244, 3.3792)
\*   3: (6.5500, 3.3900)   4: (6.6000, 3.3792)
Points == 1..4
\* current_latitude / current_longitude IS NULL
NoPosition == 0

\* 6371 * acos(cos(radians(lat)) * cos(radians(current_latitude)) *
\*             cos(radians(current_longitude) - radians(lng)) +
\*             sin(radians(lat)) * sin(radians(current_latitude)))
\* for query point q and rider position p, GreatCircle[q][p]: the value of
\* the expression in double precision, in millimetres rounded down (0 for a
\* point and itself)
GreatCircle ==
  << <<0,       11119,   3096770, 8417455>>,
     <<11119,   0,       3086511, 8406336>>,
     <<3096770, 3086511, 0,       5686303>>,
     <<8417455, 8406336, 5686303, 0>> >>

\* the pairs for which the double-precision argument of acos comes out as
\* 1.0000000000000002: PostgreSQL's acos raises "input is out of range"
AcosOutOfRange == {<<1, 1>>}

\* radiusKm: the default of 5 km, the distance between positions 2 and 3, and 12 m
defaultRadius == 5000000
Radii == {defaultRadius, GreatCircle[2][3], 12000}

RiderRows == [is_available : BOOLEAN, position : Points \cup {NoPosition}]

NoNearbyCall == [called |-> FALSE, point |-> 0, radius |-> 0, kind |-> "none", rows |-> <<>>]

\* the rows of the CTE rider_distances
rider_distances ==
  {r \in RiderIds : riders[r].is_available /\ riders[r].position # NoPosition}

\* the column distance of rider r's row
distance(q, r) == GreatCircle[q][riders[r].position]

\* the evaluation of the column distance raises for some row
acosRaises(q) ==
  \E r \in rider_distances : <<q, riders[r].position>> \in AcosOutOfRange

\* variant without the WHERE clause (used to test C29)
WithinRadiusIgnored(q, radiusKm) == rider_distances

\* WHERE distance < ?
WithinRadius(q, radiusKm) == {r \in rider_distances : distance(q, r) < radiusKm}

\* ORDER BY distance ASC: the orders the database may return the rows in
OrderByDistance(q, S) ==
  {s \in [1..Cardinality(S) -> S] :
     /\ \A i, j \in DOMAIN s : i # j => s[i] # s[j]
     /\ \A i, j \in DOMAIN s : i < j => distance(q, s[i]) <= distance(q, s[j])}

\* findNearbyAvailableRiders(lat, lng, radiusKm): result.rows, or the
\* database's error logged and rethrown
findNearbyAvailableRiders(q, radiusKm) ==
  /\ ~crashed
  /\ IF acosRaises(q)
       THEN nearby' = [called |-> TRUE, point |-> q, radius |-> radiusKm,
                       kind |-> "error", rows |-> <<>>]
       ELSE \E rows \in OrderByDistance(q, WithinRadius(q, radiusKm)) :
              nearby' = [called |-> TRUE, point |-> q, radius |-> radiusKm,
                         kind |-> "rows", rows |-> rows]
  /\ UNCHANGED riders
  /\ UNCHANGED <<dbVars, svcVars, gwVars, mqVars, brokerVars, histVars, startVars>>

RidersNext == \E q \in Points, radiusKm \in Radii : findNearbyAvailableRiders(q, radiusKm)

\* table riders with no rider available or located; no query made yet
RidersIdle ==
  /\ riders = [r \in RiderIds |-> [is_available |-> FALSE, position |-> NoPosition]]
  /\ nearby = NoNearbyCall

\* DatabaseService after construction
DatabaseUnvalidated ==
  /\ databaseInit = "none"
  /\ retryCount = 0
  /\ databaseConnected = FALSE

\* DatabaseService after an onModuleInit whose first 'SELECT 1' succeeded
DatabaseValidated ==
  /\ databaseInit = "resolved"
  /\ retryCount = 0
  /\ databaseConnected = TRUE

Init ==
  /\ \E rows \in [1..InitialOrders -> InitialRows] : DatabaseInit(rows)
  /\ ProcessInit
  /\ DatabaseValidated
  /\ RidersIdle

\* the same with every initial order unassigned (the bus never reads the orders)
BusInit ==
  /\ DatabaseInit([o \in 1..InitialOrders |-> [NoRow EXCEPT !.exists = TRUE]])
  /\ ProcessInit
  /\ DatabaseValidated
  /\ RidersIdle

\* table riders holding any riders, at any of the positions
RidersInit ==
  /\ DatabaseInit([o \in 1..InitialOrders |-> [NoRow EXCEPT !.exists = TRUE]])
  /\ ProcessInit
  /\ DatabaseValidated
  /\ riders \in [RiderIds -> RiderRows]
  /\ nearby = NoNearbyCall

\* the application at bootstrap: no module initialised yet
StartupInit ==
  /\ DatabaseInit([o \in 1..InitialOrders |-> [NoRow EXCEPT !.exists = TRUE]])
  /\ ProcessInit
  /\ DatabaseUnvalidated
  /\ RidersIdle

\* the connection lifecycle of RabbitMQService, with the broker's part in it
\* while the broker is reachable: every connect() is answered
ConnectionUpNext ==
  \/ onModuleInit
  \/ ConnectEstablished
  \/ \E c \in setup : ConnectCreateChannel(c)
  \/ \E c \in setup : ConnectReady(c)
  \/ ReconnectTimer
  \/ \E c \in open, withError \in BOOLEAN : ConnectionLost(c, withError)

\* the same, with a broker that may also refuse a connect() or drop the
\* connection under connect()'s set-up
ConnectionNext ==
  \/ ConnectionUpNext
  \/ ConnectRefused
  \/ \E c \in setup : ConnectSetupFailed(c)

\* OrdersService under overlapping calls, the broker connection coming and going
Next ==
  \/ ConnectionUpNext
  \/ \E p \in Calls, o \in OrderIds, r \in RiderIds : assignRider(p, o, r)
  \/ \E p \in Calls : assignRiderUpdate(p)
  \/ \E p \in Calls : assignRiderLog(p)
  \/ \E p \in Calls : getOrderById(p)
  \/ \E p \in Calls : assignRiderPublish(p)
  \/ \E p \in Calls, o \in OrderIds, st \in Statuses, desc \in BOOLEAN : updateOrderStatus(p, o, st, desc)
  \/ \E p \in Calls : updateOrderStatusLog(p)
  \/ \E p \in Calls : updateOrderStatusPublish(p)
  \/ \E p \in Calls, coordsValid \in BOOLEAN : createOrder(p, coordsValid)
  \/ \E p \in Calls, nearbyRiders \in SUBSET RiderIds : createOrderNotify(p, nearbyRiders)
  \/ \E p \in Calls : createOrderPublish(p)
  \/ \E p \in Calls : Commit(p)

Spec == Init /\ [][Next]_vars

\* the payloads the bus-level publishers are called with
EventPayloads == {[NoPayload EXCEPT !.order = 1]}
\* the event types the pipeline is exercised with: one whose queue has no
\* message TTL and the one whose queue has
BusKeys == {"orderUpdated", "riderLocation"}
BusQueues == {queuesConfig[k].name : k \in BusKeys}

\* the consumer pipeline of RabbitMQService: publishers, the application's
\* consumers, the broker's deliveries and expiries
PipelineNext ==
  \/ \E key \in BusKeys, data \in EventPayloads : publishEvent(key, data)
  \/ \E q \in BusQueues : consumeMessages(q)
  \/ \E q \in PrimaryQueues : Deliver(q)
  \/ \E d \in pending : HandlerSucceed(d)
  \/ \E d \in pending : HandlerFail(d)
  \/ \E d \in pending : RetryTimer(d)
  \/ \E q \in PrimaryQueues : TTLExpire(q)

BusNext == ConnectionUpNext \/ PipelineNext

\* RabbitMQService over a broker that may drop connections
BusSpec == BusInit /\ [][BusNext]_vars

\* DispatchGateway alone
GatewaySpec == BusInit /\ [][GatewayNext]_vars

\* Fairness: the gateway runs the handler of every event that an open
\* connection sends it, and every call of sendOrderToRider returns; when
\* connections open and close is left to the clients.
GatewayFairness ==
  /\ WF_vars(\E client \in SocketIds, riderId \in GatewayRiders, failing \in EmitFailures(SetOf(dispatchSockets)) :
               handleRegisterRider(client, riderId, failing))
  /\ WF_vars(\E client \in SocketIds, riderId \in GatewayRiders, failing \in EmitFailures(SetOf(dispatchSockets)) :
               handleUnregisterRider(client, riderId, failing))
  /\ WF_vars(\E client \in SocketIds : handleRegisterDispatcher(client))
  /\ WF_vars(\E client \in SocketIds : handleUnregisterDispatcher(client))
  /\ WF_vars(\E riderId \in GatewayRiders, o \in GatewayOrders :
               \E failing \in EmitFailures({riderSockets[riderId]} \ {0}) : SendOrder(riderId, o, failing))

GatewayLive == BusInit /\ [][GatewayNext]_vars /\ GatewayFairness

\* the pipeline of one event type without message TTL, its consumer
\* subscribing while the service is connected
LiveKey == "orderUpdated"
LiveQueue == queuesConfig[LiveKey].name
Subscribe == isConnected /\ consumeMessages(LiveQueue)
HandlerReturns(d) == HandlerSucceed(d) \/ HandlerFail(d)

LiveNext ==
  \/ ConnectionUpNext
  \/ \E data \in EventPayloads : publishEvent(LiveKey, data)
  \/ Subscribe
  \/ Deliver(LiveQueue)
  \/ \E d \in pending : HandlerReturns(d)
  \/ \E d \in pending : RetryTimer(d)

\* Fairness: the event loop runs every callback that is ready (connect()'s
\* continuations, the reconnect and retry timers, the handler's completion),
\* the application subscribes once the service is connected, and the broker,
\* which stays reachable, answers connect() and delivers to a subscribed
\* consumer. Connection losses and publishes are not forced.
LiveFairness ==
  /\ WF_vars(onModuleInit)
  /\ WF_vars(ConnectEstablished)
  /\ WF_vars(\E c \in setup : ConnectCreateChannel(c))
  /\ WF_vars(\E c \in setup : ConnectReady(c))
  /\ WF_vars(ReconnectTimer)
  /\ WF_vars(Subscribe)
  /\ WF_vars(Deliver(LiveQueue))
  /\ WF_vars(\E d \in pending : HandlerReturns(d))
  /\ WF_vars(\E d \in pending : RetryTimer(d))

BusLive == BusInit /\ [][LiveNext]_vars /\ LiveFairness


\* ======================================================================
\* Properties of OrdersService (checked under Spec)
\* ======================================================================
Done(p, op) == calls[p].op = op /\ calls[p].pc = "done"
Succeeded(p) == calls[p].result.kind = "ok"
ReadUnassigned(p) == calls[p].order.exists /\ ~calls[p].order.rider_assigned
BrokerDownMessage == "RabbitMQ connection not available"

\* every copy of an event that is at the broker or held by a consumer callback
MessagesAt(q) == {queues[q][i] : i \in 1..Len(queues[q])}
AllMessages == UNION {MessagesAt(q) : q \in QueueNames} \cup {d.msg : d \in pending}

\* C1: two assignRider calls on the same unassigned order that overlap (both
\* read the order before either finishes) end with exactly one of them
\* succeeding and the other failing with a Conflict error.
C1_ExactlyOneConcurrentAssignWins ==
  \A p, q \in Calls :
    ( /\ p # q
      /\ Done(p, "assignRider") /\ Done(q, "assignRider")
      /\ calls[p].orderId = calls[q].orderId
      /\ p \in calls[q].overlaps
      /\ ReadUnassigned(p) /\ ReadUnassigned(q)
      /\ calls[p].result.message # BrokerDownMessage
      /\ calls[q].result.message # BrokerDownMessage )
    => \/ Succeeded(p) /\ calls[q].result.kind = "ConflictException"
       \/ Succeeded(q) /\ calls[p].result.kind = "ConflictException"

\* C2: once the committed row of an order has rider_assigned = true with
\* rider_id = c, no step of any createOrder / assignRider / updateOrderStatus
\* call changes its rider_id or clears rider_assigned.
C2_AssignmentIsFinal ==
  [][\A o \in OrderIds :
       (orders[o].exists /\ orders[o].rider_assigned)
         => /\ orders'[o].exists
            /\ orders'[o].rider_assigned
            /\ orders'[o].rider_id = orders[o].rider_id]_vars

\* an assigned order on which a later assignRider has been tried and an
\* updateOrderStatus has committed
C2_Witness ==
  \E o \in OrderIds, p, q \in Calls :
    /\ orders[o].rider_assigned
    /\ Done(p, "assignRider") /\ calls[p].orderId = o /\ calls[p].riderId # orders[o].rider_id
    /\ Done(q, "updateOrderStatus") /\ calls[q].orderId = o /\ Succeeded(q)
    /\ orders[o].status = "accepted"

\* C3: with database and broker available, assignRider(O1, C1) on an existing
\* unassigned order succeeds and returns the order with rider_assigned = true
\* and rider_id = C1.
C3_AssignSucceedsOnUnassigned ==
  \A p \in Calls :
    ( /\ Done(p, "assignRider")
      /\ ReadUnassigned(p)
      /\ calls[p].overlaps = {}
      /\ isConnected /\ losses = 0 /\ ~crashed
      /\ calls[p].result.message # BrokerDownMessage )
    => /\ Succeeded(p)
       /\ calls[p].result.order.rider_assigned
       /\ calls[p].result.order.rider_id = calls[p].riderId

\* C4: assignRider(O, C2) on an order already assigned to C1 fails with a
\* Conflict-typed error, leaves the order row and the audit log unchanged and
\* publishes no order.assigned event.
C4_ConflictOnAssignedOrder ==
  \A p \in Calls :
    (Done(p, "assignRider") /\ calls[p].order.exists /\ calls[p].order.rider_assigned)
    => /\ calls[p].result.kind = "ConflictException"
       /\ orders[calls[p].orderId].rider_id = calls[p].order.rider_id
       /\ orders[calls[p].orderId].rider_assigned
       /\ \A i \in 1..Len(logs) : logs[i].by # p
       /\ \A m \in AllMessages : m.payload.by # p

\* C5: assignRider on an order id that does not exist fails with NotFound,
\* and the step in which it does so writes no order row, no audit-log entry
\* and publishes no event.
C5_AssignMissingOrderNotFound ==
  [][\A p \in Calls :
       ( /\ calls[p].pc # "done" /\ calls'[p].pc = "done"
         /\ calls'[p].op = "assignRider"
         /\ ~orders[calls'[p].orderId].exists )
       => /\ calls'[p].result.kind = "NotFoundException"
          /\ calls[p].pc = "idle"
          /\ UNCHANGED <<orders, calculated_orders, logs, order_total_amount_history>>
          /\ UNCHANGED <<queues, msgSeq, emitted>>]_vars

\* an assignRider call on a missing order has returned NotFound
C5_Witness ==
  \E p \in Calls :
    /\ Done(p, "assignRider") /\ ~calls[p].order.exists
    /\ calls[p].result.kind = "NotFoundException"
    /\ ~orders[calls[p].orderId].exists

\* C6: if the broker connection is down when createOrder reaches the
\* publication of order.created, the caller receives a connectivity error
\* and the order row and its pricing snapshot remain committed.
C6_OrderSurvivesFailedPublish ==
  \A p \in Calls :
    (Done(p, "createOrder") /\ calls[p].result.message = BrokerDownMessage)
    => /\ calls[p].result.kind = "Error"
       /\ orders[calls[p].orderId].exists
       /\ calls[p].orderId \in calculated_orders

\* ======================================================================
\* Properties of the consumer pipeline (checked under BusSpec)
\* ======================================================================
Events == 1..MaxMsgs
CopiesIn(q, m) == Cardinality({i \in 1..Len(queues[q]) : queues[q][i].id = m})
CopiesOf(m) == {c \in AllMessages : c.id = m}
InFlight(m) == \E d \in pending : d.msg.id = m
DeadCopies(m) ==
  UNION {{<<q, i>> : i \in {j \in 1..Len(queues[q]) : queues[q][j].id = m}} : q \in DeadQueues}
\* the event has left its primary queue and no callback or timer holds it
AtRest(m) == m <= msgSeq /\ ~InFlight(m) /\ \A q \in PrimaryQueues : CopiesIn(q, m) = 0
AllFail(m) == \A i \in 1..Len(outcomes[m]) : outcomes[m][i] = "fail"
\* the primary queue a copy was published to or dead-lettered from
HomeQueue(c) ==
  CHOOSE q \in PrimaryQueues : c.rk = ConfigOf(q).dlk \/ q \in Route(exchangeName, c.rk)
NoTtl(m) == \A c \in CopiesOf(m) : ~ConfigOf(HomeQueue(c)).ttl

\* C8: a message whose handler fails on delivery attempts 1 and 2 and succeeds
\* on attempt 3, the connection staying up, gets exactly one handler-success
\* acknowledgement, and no copy of it is in a dead-letter queue (nor anywhere
\* else at the broker).
C8_ThirdAttemptSucceeds ==
  \A m \in Events :
    (outcomes[m] = <<"fail", "fail", "ok">> /\ losses = 0)
    => /\ acks[m] = 1
       /\ rejects[m] = 0
       /\ DeadCopies(m) = {}
       /\ CopiesOf(m) = {}

\* a message has been through two failed attempts and a successful third
C8_Witness ==
  \E m \in Events : outcomes[m] = <<"fail", "fail", "ok">> /\ losses = 0 /\ acks[m] = 1

Settled(m) == acks[m] >= 1 \/ DeadCopies(m) # {}

\* C10: under fair scheduling of the consumer and the timers, every event
\* published to the broker is eventually acknowledged after a successful
\* handler invocation or placed in its dead-letter queue, also when the
\* connection is lost and re-established.
C10_EveryEventSettles ==
  \A m \in Events : (m <= msgSeq) ~> Settled(m)

\* ======================================================================
\* Retry counts (checked under BusSpec)
\* ======================================================================
\* the copies waiting in the primary queues or held by a callback or timer
LiveCopies == UNION {MessagesAt(q) : q \in PrimaryQueues} \cup {d.msg : d \in pending}
RetryCounts == 0..maxRetries
\* this step appends exactly one copy to primary queue q
Appends(q) ==
  /\ Len(queues'[q]) = Len(queues[q]) + 1
  /\ SubSeq(queues'[q], 1, Len(queues[q])) = queues[q]
Appended(q) == queues'[q][Len(queues'[q])]
\* c is the first publication of a new event
FreshPublish(c) == c.rc = 0 /\ c.id = msgSeq + 1 /\ msgSeq' = msgSeq + 1
\* c is the re-publication made by the retry timer of a failed delivery
RetryOf(c) ==
  \E d \in pending :
    /\ d.st = "timer" /\ d \notin pending'
    /\ c.id = d.msg.id /\ c.rc = d.msg.rc + 1 /\ c.rc <= maxRetries

\* C11: every message copy in a primary queue or in flight carries an
\* x-retry-count in 0..3; a copy that a step of the running service adds to
\* a primary queue is either a first publication with count 0 or the retry
\* of a failed delivery with exactly that delivery's count plus 1, never
\* above 3.
C11_RetryCountBounded ==
  [][/\ \A c \in LiveCopies' : c.rc \in RetryCounts
     /\ \A q \in PrimaryQueues :
          (Appends(q) /\ ~crashed' /\ losses' = losses)
            => FreshPublish(Appended(q)) \/ RetryOf(Appended(q))]_vars

\* a copy on its last permitted retry waits in a primary queue
C11_Witness ==
  \E q \in PrimaryQueues : \E c \in MessagesAt(q) : c.rc = maxRetries

\* ======================================================================
\* Publishing while disconnected (checked under BusSpec)
\* ======================================================================
\* the events of which the broker or a consumer callback holds a copy
BrokerIds == {c.id : c \in AllMessages}
NotConnected == ~isConnected \/ channel = 0

\* C12: a publish operation called while the service is not connected
\* returns an error to its caller and puts no message on the broker; the
\* message is not kept for later either: an event appears at the broker only
\* in the step of a publish call that succeeds while connected, never in a
\* connect or reconnect step.
C12_PublishWhileDisconnectedFails ==
  [][/\ NotConnected => (msgSeq' = msgSeq /\ BrokerIds' \subseteq BrokerIds)
     /\ (NotConnected /\ publishResult' # publishResult) => publishResult' = "error"
     /\ ~(BrokerIds' \subseteq BrokerIds)
          => /\ ~NotConnected
             /\ publishResult' = "ok"
             /\ msgSeq' = msgSeq + 1
             /\ BrokerIds' = BrokerIds \cup {msgSeq + 1}]_vars

\* a publish failed while disconnected, the connection was then lost and
\* re-established, and the broker holds nothing
C12_Witness ==
  /\ publishResult = "error" /\ msgSeq = 0
  /\ losses > 0 /\ isConnected /\ channel \in openCh
  /\ \A q \in QueueNames : queues[q] = <<>>

\* ======================================================================
\* Properties of DispatchGateway (checked under GatewaySpec)
\* ======================================================================
\* the step is a gateway call (not a connection opening or closing) that
\* ends as call `op`
CallStep(op) == gwOp'.op = op /\ connected' = connected /\ socketSeq' = socketSeq
NewOrderTo(socketId, riderId) == {Emission(socketId, "newOrder", riderId, o) : o \in GatewayOrders}

\* C13: registration is last-writer-wins: a registerRider call leaves the
\* rider mapped to the calling connection only (whatever was stored before),
\* and a sendOrderToRider call that emits emits exactly one newOrder, to the
\* handle stored at the time of the call, never to an earlier one.
C13_LastWriterWins ==
  [][/\ CallStep("registerRider") => riderSockets'[gwOp'.rider] = gwOp'.socket
     /\ (CallStep("sendOrderToRider") /\ emitCount' # emitCount)
          => /\ emitCount' = emitCount + 1
             /\ \E e \in NewOrderTo(riderSockets[gwOp'.rider], gwOp'.rider) : emitted' = emitted \cup {e}]_vars

\* rider 1 registered from socket 1 and was sent an order, then registered
\* from socket 2 and was sent an order there
C13_Witness ==
  /\ gwOp = GatewayCall("sendOrderToRider", 1, 2, "true", {})
  /\ riderSockets[1] = 2 /\ 1 \in connected
  /\ emitted = NewOrderTo(1, 1) \cup NewOrderTo(2, 1)

\* C14: an unregisterRider(id) call from connection conn removes the mapping
\* of id if and only if the stored handle equals conn; otherwise it leaves
\* the registry unchanged, so a late unregister from an older connection
\* never erases a newer registration.
C14_UnregisterOnlyOwnHandle ==
  [][CallStep("unregisterRider")
       => /\ riderSockets' = IF riderSockets[gwOp'.rider] = gwOp'.socket
                               THEN [riderSockets EXCEPT ![gwOp'.rider] = 0]
                               ELSE riderSockets
          /\ dispatchSockets' = dispatchSockets]_vars

\* socket 1 has just sent unregisterRider for a rider whose stored handle is
\* the newer socket 2, and the mapping is intact
C14_Witness ==
  /\ gwOp.op = "unregisterRider" /\ gwOp.socket = 1 /\ gwOp.rider = 1
  /\ riderSockets[1] = 2 /\ {1, 2} \subseteq connected

\* C15 (as stated): sendOrderToRider returns true exactly when a handle is
\* stored for the rider, then emitting one newOrder to it; otherwise it
\* returns false and emits nothing; the registry is unchanged either way.
C15_SendReturnsMappingPresent ==
  [][CallStep("sendOrderToRider")
       => /\ IF riderSockets[gwOp'.rider] # 0
               THEN /\ gwOp'.result = "true"
                    /\ emitCount' = emitCount + 1
                    /\ \E e \in NewOrderTo(riderSockets[gwOp'.rider], gwOp'.rider) : emitted' = emitted \cup {e}
               ELSE /\ gwOp'.result = "false"
                    /\ UNCHANGED <<emitted, emitCount>>
          /\ UNCHANGED <<riderSockets, dispatchSockets>>]_vars

\* C15 (amended): it returns true exactly when a handle is stored and the
\* emit call on it does not throw, then having emitted one newOrder to that
\* handle; otherwise (no handle, or emit threw) it returns false without
\* emitting; it never throws and never changes the registry.
C15_SendReturnsEmitted ==
  [][CallStep("sendOrderToRider")
       => /\ IF riderSockets[gwOp'.rider] # 0 /\ riderSockets[gwOp'.rider] \notin gwOp'.failing
               THEN /\ gwOp'.result = "true"
                    /\ emitCount' = emitCount + 1
                    /\ \E e \in NewOrderTo(riderSockets[gwOp'.rider], gwOp'.rider) : emitted' = emitted \cup {e}
               ELSE /\ gwOp'.result = "false"
                    /\ UNCHANGED <<emitted, emitCount>>
          /\ UNCHANGED <<riderSockets, dispatchSockets>>]_vars

\* one call has emitted and returned true, the next one met a throwing emit
\* and returned false
C15_Witness ==
  /\ gwOp.op = "sendOrderToRider" /\ gwOp.result = "false"
  /\ riderSockets[gwOp.rider] # 0 /\ gwOp.failing = {riderSockets[gwOp.rider]}
  /\ emitCount = 1 /\ emitted \in {NewOrderTo(x, 1) : x \in SocketIds}

\* ======================================================================
\* Liveness of the registry (checked under GatewayLive)
\* ======================================================================
Referenced(socketId) ==
  \/ \E riderId \in RiderIds : riderSockets[riderId] = socketId
  \/ socketId \in SetOf(dispatchSockets)
Closed(socketId) == socketId <= socketSeq /\ socketId \notin connected

\* C16: when a connection closes without having sent an unregister message,
\* the registry eventually stops referencing it: no rider id stays mapped to
\* the closed handle and the dispatcher set no longer contains it.
C16_ClosedHandleForgotten ==
  \A socketId \in SocketIds :
    (Closed(socketId) /\ Referenced(socketId)) ~> ~Referenced(socketId)

\* ======================================================================
\* Broadcasts to dispatchers (checked under GatewaySpec)
\* ======================================================================
\* every dispatcher socket on which emit does not throw has been sent `event`
ReachesTheOthers(event) ==
  \A x \in SetOf(dispatchSockets) \ gwOp'.failing :
    Emission(x, event, gwOp'.rider, 0) \in emitted'

\* C17: broadcastToDispatchers is best-effort per connection: when the send
\* to one dispatcher connection fails, the calling handler still returns
\* normally and every other connection in the dispatcher set receives the
\* event.
C17_BroadcastBestEffort ==
  [][/\ (CallStep("registerRider") /\ gwOp'.failing # {})
          => gwOp'.result = "returned" /\ ReachesTheOthers("riderConnected")
     /\ (CallStep("unregisterRider") /\ gwOp'.failing # {} /\ StoredHandleIs(gwOp'.rider, gwOp'.socket))
          => gwOp'.result = "returned" /\ ReachesTheOthers("riderDisconnected")]_vars


\* ======================================================================
\* The broker connection on its own: connects that succeed, are refused or
\* die under set-up, and connections the broker drops later
\* ======================================================================
ConnectionSpec == BusInit /\ [][ConnectionNext]_vars

\* bootstrap: DatabaseService and RabbitMQService run their onModuleInit
StartupNext ==
  \/ ConnectionNext
  \/ databaseOnModuleInit
  \/ validateConnectionOk
  \/ validateConnectionFail

StartupSpec == StartupInit /\ [][StartupNext]_vars

\* C18: between two successful connects (and before the first), the service
\* starts at most maxReconnectAttempts reconnect attempts; so once that many
\* have been started and none has succeeded, it starts no other.
C18_ReconnectsBounded == reconnects <= maxReconnectAttempts

\* the running process has used up its reconnect attempts: the counter is at
\* the bound and no connect() call or reconnect timer is left
BrokerExhausted ==
  /\ ~crashed /\ moduleInit /\ ~isConnected
  /\ reconnectAttempts = maxReconnectAttempts
  /\ timers = 0 /\ connecting = 0 /\ setup = {}

\* validateConnection has finished without a database connection
DatabaseExhausted == databaseInit \notin {"none", "pending"} /\ ~databaseConnected

\* C19: when the broker's or the database's connection attempts have run
\* out, the onModuleInit of that service has ended in an error, not normally.
C19_ExhaustionSurfaced ==
  /\ BrokerExhausted => brokerInit = "rejected"
  /\ DatabaseExhausted => databaseInit = "rejected"

\* a step in which the uncaughtException handler ends the process
ProcessExits == ~crashed /\ crashed'

\* the step runs the catch block of a callback whose handler failed
HandlerFailed == \E m \in DOMAIN outcomes : outcomes'[m] = Append(outcomes[m], "fail")

\* the step runs the retry timer set by such a catch block
RetryTimerFired ==
  /\ outcomes' = outcomes /\ databaseInit' = databaseInit
  /\ \E d \in pending : d.st = "timer" /\ d \notin pending'

\* C20: no step that handles a handler failure (the catch block of the
\* callback, or the retry timer it set) ends the process, whatever happened
\* to the channel and the connection meanwhile.
C20_HandlerFailureNeverExits ==
  [][~(ProcessExits /\ (HandlerFailed \/ RetryTimerFired))]_vars

\* ======================================================================
\* findNearbyAvailableRiders over every riders table
\* ======================================================================
RidersSpec == RidersInit /\ [][RidersNext]_vars

\* the riders that are available, have a position, and are nearer to the
\* query point of the last call than its radius
Qualifying ==
  {r \in RiderIds : /\ riders[r].is_available
                    /\ riders[r].position # NoPosition
                    /\ GreatCircle[nearby.point][riders[r].position] < nearby.radius}

\* C21: findNearbyAvailableRiders returns the qualifying riders, each once,
\* by non-decreasing distance, and never an error (an empty sequence when no
\* rider qualifies).
C21_NearbyExactAndSorted ==
  nearby.called =>
    /\ nearby.kind = "rows"
    /\ {nearby.rows[i] : i \in DOMAIN nearby.rows} = Qualifying
    /\ Len(nearby.rows) = Cardinality(Qualifying)
    /\ \A i, j \in DOMAIN nearby.rows :
         i < j => GreatCircle[nearby.point][riders[nearby.rows[i]].position]
                    <= GreatCircle[nearby.point][riders[nearby.rows[j]].position]

\* ======================================================================
\* assignRider as one transaction
\* ======================================================================
\* call p returns from assignRider in this step
AssignReturns(p) ==
  calls'[p].op = "assignRider" /\ calls[p].pc # "done" /\ calls'[p].pc = "done"

\* some call returns successfully in this step
SomeCommit == \E p \in Calls : calls[p].pc # "done" /\ calls'[p].pc = "done" /\ calls'[p].result.kind = "ok"

\* the log line assignRider writes
AssignmentLog(p) ==
  [order_id |-> calls'[p].orderId, description |-> "Rider assigned to order",
   rider |-> calls'[p].riderId, by |-> p]

\* C22: an assignRider call that fails leaves the orders and the log as they
\* are; one that succeeds sets the order's rider and appends exactly one log
\* entry; no step removes or rewrites a log entry, and the rows and the log
\* change only when a call succeeds.
C22_AssignAllOrNothing ==
  [][/\ \A p \in Calls :
          AssignReturns(p) =>
            IF calls'[p].result.kind = "ok"
              THEN /\ logs' = Append(logs, AssignmentLog(p))
                   /\ orders'[calls'[p].orderId].rider_id = calls'[p].riderId
                   /\ orders'[calls'[p].orderId].rider_assigned
                   /\ \A o \in OrderIds \ {calls'[p].orderId} : orders'[o] = orders[o]
              ELSE orders' = orders /\ logs' = logs
     /\ Len(logs') >= Len(logs) /\ SubSeq(logs', 1, Len(logs)) = logs
     /\ (orders' # orders \/ logs' # logs) => SomeCommit]_vars

\* an assignRider call that failed after its UPDATE and its log INSERT, the
\* order still unassigned and the log without an assignment line for it
C22_Witness ==
  \E p \in Calls :
    /\ Done(p, "assignRider") /\ ~Succeeded(p)
    /\ calls[p].result.message = "Cannot publish order assignment: no rider assigned"
    /\ ~orders[calls[p].orderId].rider_assigned
    /\ \A i \in 1..Len(logs) :
         ~(logs[i].order_id = calls[p].orderId /\ logs[i].description = "Rider assigned to order")

\* ======================================================================
\* A consumer of order.updated in front of a backlog
\* ======================================================================
BacklogQueue == "order.updated"

\* RabbitMQService connected, consumeMessages("order.updated", handler)
\* called, and Backlog events published to the queue meanwhile
BacklogInit ==
  /\ DatabaseInit([o \in 1..InitialOrders |-> [NoRow EXCEPT !.exists = TRUE]])
  /\ DatabaseValidated
  /\ RidersIdle
  /\ calls = [p \in Calls |-> IdleCall]
  /\ riderSockets = [r \in RiderIds |-> 0]
  /\ emitted = {}
  /\ dispatchSockets = <<>>
  /\ connected = {}
  /\ socketSeq = 0
  /\ gwOp = NoGatewayCall
  /\ emitCount = 0
  /\ moduleInit = TRUE
  /\ brokerInit = "resolved"
  /\ isConnected = TRUE
  /\ reconnectAttempts = 0
  /\ reconnects = 0
  /\ connection = 1
  /\ channel = 1
  /\ connecting = 0
  /\ setup = {}
  /\ timers = 0
  /\ crashed = FALSE
  /\ connSeq = 1
  /\ open = {1}
  /\ openCh = {1}
  /\ queues = [q \in QueueNames |->
                 IF q = BacklogQueue
                   THEN [i \in 1..Backlog |->
                           Message(i, toLowerCase("orderUpdated"), 0, [NoPayload EXCEPT !.order = 1])]
                   ELSE <<>>]
  /\ consumers = {[queue |-> BacklogQueue, ch |-> 1]}
  /\ consumeCalled = [q \in PrimaryQueues |-> IF q = BacklogQueue THEN "ok" ELSE "none"]
  /\ pending = {}
  /\ msgSeq = Backlog
  /\ tagSeq = 0
  /\ losses = 0
  /\ publishResult = "ok"
  /\ outcomes = [i \in EventIds |-> <<>>]
  /\ acks = [i \in EventIds |-> 0]
  /\ rejects = [i \in EventIds |-> 0]

\* the retry copies at the broker or in a callback
RetryCopies == {c \in AllMessages : c.rc > 0}

\* the handler fails every event; of the retry timers, MaxRetriesFired are
\* followed at a time
BacklogNext ==
  \/ Deliver(BacklogQueue)
  \/ \E d \in pending : HandlerFail(d)
  \/ \E d \in pending : Cardinality(RetryCopies) < MaxRetriesFired /\ RetryTimer(d)

BacklogSpec == BacklogInit /\ [][BacklogNext]_vars

\* the consumers of q whose channel is open
LiveConsumers(q) == {x \in consumers : x.queue = q /\ x.ch \in openCh}

\* the deliveries to consumer x that wait on their retry timer
PendingRetry(x) == {d \in UnackedBy(x) : d.st = "timer"}

Held(q, ch) == {d \in pending : d.q = q /\ d.ch = ch /\ ~d.settled}

\* C24: a consumer never holds more than prefetchCount delivered and
\* unacknowledged messages, those with the handler and those waiting on a
\* retry timer counted together.
C24_HeldWithinPrefetch ==
  \A q \in PrimaryQueues, ch \in 1..connSeq : Cardinality(Held(q, ch)) <= prefetchCount

\* the consumer holds prefetchCount deliveries, some with the handler and
\* some waiting on a retry timer, while a message waits in the queue
C24_Witness ==
  \E x \in LiveConsumers(BacklogQueue) :
    /\ Cardinality(Held(x.queue, x.ch)) = prefetchCount
    /\ \E d \in Held(x.queue, x.ch) : d.st = "handler"
    /\ \E d \in Held(x.queue, x.ch) : d.st = "timer"
    /\ Len(queues[BacklogQueue]) > 0

\* ======================================================================
\* The retry copy and the acknowledgement of the original
\* ======================================================================
\* the broker holds event id: a copy waits in a queue, or a delivery of it
\* is unacknowledged
AtBroker(id) ==
  \/ \E q \in QueueNames : \E i \in 1..Len(queues[q]) : queues[q][i].id = id
  \/ \E d \in pending : d.msg.id = id /\ ~d.settled

\* the step acknowledges delivery d, which was waiting on its retry timer
RetryAcked(d) ==
  /\ d.st = "timer" /\ ~d.settled
  /\ d \notin pending' /\ [d EXCEPT !.settled = TRUE] \notin pending'
  /\ ~crashed'

\* C25: the step that acknowledges a delivery waiting on its retry timer
\* appends to the delivery's queue a copy with the same routing key and
\* payload and the incremented x-retry-count, and to no other queue; and while
\* a failed delivery waits on its timer the broker holds the event.
C25_RetryCopyThenAck ==
  [][/\ \A d \in pending :
          RetryAcked(d) =>
            /\ queues'[d.q] = Append(queues[d.q],
                                     Message(d.msg.id, d.msg.rk, d.msg.rc + 1, d.msg.payload))
            /\ \A q \in QueueNames \ {d.q} : queues'[q] = queues[q]
     /\ \A d \in pending' : d.st = "timer" => AtBroker(d.msg.id)']_vars

\* a retry copy with x-retry-count 1 waits in its queue, its original
\* acknowledged after the handler failed it
C25_Witness ==
  \E q \in BusQueues : \E i \in 1..Len(queues[q]) :
    /\ queues[q][i].rc = 1
    /\ outcomes[queues[q][i].id] = <<"fail">>
    /\ \A d \in pending : d.msg.id # queues[q][i].id
    /\ ~crashed

\* ======================================================================
\* The retry delays
\* ======================================================================
\* the delays of the first, second and third retry, in milliseconds
Delays == <<2000, 4000, 8000>>

\* C26: a retry timer is set for 1000 * 2^n ms, n the incremented
\* x-retry-count: 2000, 4000 and 8000 ms for the first, second and third
\* retry, each longer than the one before and none above 8000 ms.
C26_ExponentialDelays ==
  /\ \A d \in pending :
       d.st = "timer" =>
         /\ d.n = d.msg.rc + 1
         /\ d.n \in 1..Len(Delays)
         /\ d.delay = Delays[d.n]
         /\ d.delay <= 8000
  /\ \A n \in 1..(Len(Delays) - 1) : retryDelay(n) < retryDelay(n + 1)

\* a delivery failed for the third time waits on its timer of 8000 ms
C26_Witness ==
  \E d \in pending : d.st = "timer" /\ d.n = maxRetries /\ d.delay = 8000

\* ======================================================================
\* Routing of the four event types
\* ======================================================================
\* the orders publishOrderAssigned is called with
AssignedOrders == {[order |-> 1, rider_id |-> r] : r \in {0} \cup RiderIds}

\* callers publishing events of every type, over a connection that comes and goes
RoutingNext ==
  \/ ConnectionUpNext
  \/ \E key \in PublishKeys, data \in EventPayloads : publishEvent(key, data)
  \/ \E data \in AssignedOrders : publishOrderAssigned(data)

RoutingSpec == BusInit /\ [][RoutingNext]_vars

\* the step is a publish* call of event type `key` that published
Publishes(key) ==
  /\ publishResult' = "ok" /\ msgSeq' = msgSeq + 1
  /\ \/ \E data \in EventPayloads : publishEvent(key, data)
     \/ key = "orderAssigned" /\ \E data \in AssignedOrders : publishOrderAssigned(data)

\* the key under which setupQueues binds queue q
BindingKey(q) == (CHOOSE b \in setupQueues : b.queue = q).key

\* the step appends one message to queue q, with routing key rk, and leaves
\* every other queue as it is
RoutedTo(q, rk) ==
  /\ Len(queues'[q]) = Len(queues[q]) + 1
  /\ SubSeq(queues'[q], 1, Len(queues[q])) = queues[q]
  /\ queues'[q][Len(queues'[q])].id = msgSeq'
  /\ queues'[q][Len(queues'[q])].rk = rk
  /\ \A other \in QueueNames \ {q} : queues'[other] = queues[other]

WireKey ==
  [orderCreated |-> "ordercreated", orderUpdated |-> "orderupdated",
   orderAssigned |-> "orderassigned", riderLocation |-> "riderlocation"]

createOrderNearby(p, q, failing) ==
  /\ ~crashed /\ calls[p].op = "createOrder" /\ calls[p].pc = "notify"
  /\ RowOnTrx(p, calls[p].orderId).exists
  /\ IF acosRaises(q)
       THEN /\ failing = {}
            /\ nearby' = [called |-> TRUE, point |-> q, radius |-> defaultRadius,
                          kind |-> "error", rows |-> <<>>]
            /\ Rollback(p, Thrown("error", "input is out of range"))
            /\ UNCHANGED <<emitted, emitCount, gwOp>>
       ELSE \E rows \in OrderByDistance(q, WithinRadius(q, defaultRadius)) :
              LET sent == {e \in UNION {sendOrderToRider(r, calls[p].orderId) : r \in SetOf(rows)} :
                             e.socket \notin failing}
              IN /\ failing \subseteq {riderSockets[r] : r \in SetOf(rows)} \ {0}
                 /\ nearby' = [called |-> TRUE, point |-> q, radius |-> defaultRadius,
                               kind |-> "rows", rows |-> rows]
                 /\ emitted' = emitted \cup sent
                 /\ emitCount' = emitCount + Cardinality(sent)
                 /\ gwOp' = GatewayCall("createOrder", 0, 0, "returned", failing)
                 /\ calls' = [calls EXCEPT ![p].pc = "publish"]
                 /\ UNCHANGED <<orders, calculated_orders, logs, order_total_amount_history, rowLock>>
  /\ UNCHANGED <<orderSeq, riders, riderSockets, dispatchSockets, connected, socketSeq>>
  /\ UNCHANGED <<mqVars, brokerVars, histVars, startVars>>

\* RabbitMQService connected and nothing published yet, no socket accepted
\* yet, table riders holding any riders at any of the positions
NotifyInit ==
  /\ DatabaseInit([o \in 1..InitialOrders |-> [NoRow EXCEPT !.exists = TRUE]])
  /\ DatabaseValidated
  /\ riders \in [RiderIds -> RiderRows]
  /\ nearby = NoNearbyCall
  /\ calls = [p \in Calls |-> IdleCall]
  /\ riderSockets = [r \in RiderIds |-> 0]
  /\ emitted = {}
  /\ dispatchSockets = <<>>
  /\ connected = {}
  /\ socketSeq = 0
  /\ gwOp = NoGatewayCall
  /\ emitCount = 0
  /\ moduleInit = TRUE
  /\ brokerInit = "resolved"
  /\ isConnected = TRUE
  /\ reconnectAttempts = 0
  /\ reconnects = 0
  /\ connection = 1
  /\ channel = 1
  /\ connecting = 0
  /\ setup = {}
  /\ timers = 0
  /\ crashed = FALSE
  /\ connSeq = 1
  /\ open = {1}
  /\ openCh = {1}
  /\ queues = [q \in QueueNames |-> <<>>]
  /\ consumers = {}
  /\ consumeCalled = [q \in PrimaryQueues |-> "none"]
  /\ pending = {}
  /\ msgSeq = 0
  /\ tagSeq = 0
  /\ losses = 0
  /\ publishResult = "none"
  /\ outcomes = [i \in EventIds |-> <<>>]
  /\ acks = [i \in EventIds |-> 0]
  /\ rejects = [i \in EventIds |-> 0]

\* riders registering on their sockets while orders are created
NotifyNext ==
  \/ SocketConnect
  \/ \E client \in SocketIds, riderId \in RiderIds : handleRegisterRider(client, riderId, {})
  \/ \E p \in Calls : createOrder(p, TRUE)
  \/ \E p \in Calls, q \in Points :
       \E failing \in EmitFailures({riderSockets[r] : r \in RiderIds} \ {0}) :
         createOrderNearby(p, q, failing)
  \/ \E p \in Calls : createOrderPublish(p)
  \/ \E p \in Calls : Commit(p)

NotifySpec == NotifyInit /\ [][NotifyNext]_vars

\* the step is createOrder's notification of the riders found near the order
NotifiesNearby(p) ==
  /\ calls[p].op = "createOrder" /\ calls[p].pc = "notify"
  /\ calls'[p].pc = "publish"

\* the riders within the default radius of point q that have a socket stored
MappedNearby(q) ==
  {r \in RiderIds : /\ riders[r].is_available
                    /\ riders[r].position # NoPosition
                    /\ GreatCircle[q][riders[r].position] < defaultRadius
                    /\ riderSockets[r] # 0}

\* C29 as stated: createOrder with valid coordinates emits one newOrder to
\* the stored socket of every rider that findNearbyAvailableRiders returns
\* for the order's location and that has a mapping, and nothing else
C29_NotifiesMappedNearby ==
  [][\A p \in Calls : NotifiesNearby(p) =>
       /\ emitted' \ emitted =
            {Emission(riderSockets[r], "newOrder", r, calls[p].orderId) : r \in MappedNearby(nearby'.point)}
       /\ emitCount' = emitCount + Cardinality(MappedNearby(nearby'.point))]_vars

\* C29 amended: createOrder with valid coordinates calls emit once for every
\* rider that findNearbyAvailableRiders returns and that has a mapping; the
\* newOrder notifications sent are exactly those of the riders whose emit
\* call does not throw, one each, and no other socket is sent one
C29_NotifiesMappedNearbyUnlessEmitThrows ==
  [][\A p \in Calls : NotifiesNearby(p) =>
       LET reached == {r \in MappedNearby(nearby'.point) : riderSockets[r] \notin gwOp'.failing}
       IN /\ gwOp'.failing \subseteq {riderSockets[r] : r \in MappedNearby(nearby'.point)}
          /\ emitted' \ emitted =
               {Emission(riderSockets[r], "newOrder", r, calls[p].orderId) : r \in reached}
          /\ emitCount' = emitCount + Cardinality(reached)]_vars

\* an order was created near a rider who was sent it, while another rider
\* with a socket stored was not within the radius and was sent nothing
C29_Witness ==
  \E p \in Calls, r1, r2 \in RiderIds :
    /\ calls[p].op = "createOrder" /\ calls[p].pc = "publish"
    /\ nearby.kind = "rows" /\ SetOf(nearby.rows) = {r1}
    /\ Emission(riderSockets[r1], "newOrder", r1, calls[p].orderId) \in emitted
    /\ r2 # r1 /\ riderSockets[r2] # 0 /\ riders[r2].is_available /\ riders[r2].position # NoPosition
    /\ \A e \in emitted : e.rider # r2

\* ======================================================================
\* DispatchGateway: orderAccepted, orderRejected, orderDelivered
\* ======================================================================
\* riders and dispatchers register on their sockets; the rider's client
\* reports on the order, whatever the order's row says
StatusNext ==
  \/ SocketConnect
  \/ \E client \in SocketIds, riderId \in GatewayRiders : handleRegisterRider(client, riderId, {})
  \/ \E client \in SocketIds : handleRegisterDispatcher(client)
  \/ \E client \in SocketIds, riderId \in GatewayRiders, o \in GatewayOrders :
       \E failing \in EmitFailures(SetOf(dispatchSockets)) : handleOrderAccepted(client, riderId, o, failing)
  \/ \E client \in SocketIds, riderId \in GatewayRiders, o \in GatewayOrders :
       \E failing \in EmitFailures(SetOf(dispatchSockets)) : handleOrderRejected(client, riderId, o, failing)
  \/ \E client \in SocketIds, riderId \in GatewayRiders, o \in GatewayOrders :
       \E failing \in EmitFailures(SetOf(dispatchSockets)) : handleOrderDelivered(client, riderId, o, failing)

StatusSpec == Init /\ [][StatusNext]_vars

StatusEvents == {"orderAccepted", "orderRejected", "orderDelivered"}

\* the step is the handler of `event`, sent by `client` for rider and order
StatusReport(event, client, riderId, o) ==
  \E failing \in EmitFailures(SetOf(dispatchSockets)) :
    \/ event = "orderAccepted" /\ handleOrderAccepted(client, riderId, o, failing)
    \/ event = "orderRejected" /\ handleOrderRejected(client, riderId, o, failing)
    \/ event = "orderDelivered" /\ handleOrderDelivered(client, riderId, o, failing)

\* C30: handling orderAccepted, orderRejected or orderDelivered leaves the
\* orders (assignment state, rider, status), the logs and both registry maps
\* unchanged; all it does is emit the event to dispatcher sockets
C30_StatusReportOnlyBroadcasts ==
  [][\A event \in StatusEvents, client \in SocketIds, riderId \in GatewayRiders, o \in GatewayOrders :
       (gwOp'.op = event /\ gwOp'.socket = client /\ StatusReport(event, client, riderId, o)) =>
         /\ UNCHANGED <<orders, calculated_orders, logs, order_total_amount_history, rowLock>>
         /\ UNCHANGED <<riderSockets, dispatchSockets>>
         /\ UNCHANGED <<calls, queues, msgSeq, riders>>
         /\ emitted' \ emitted \subseteq
              {Emission(x, event, riderId, o) : x \in SetOf(dispatchSockets)}]_vars

\* the rider's client has reported order 1 delivered, a dispatcher was sent
\* the report, and the order's row is as it was: not assigned, still pending
C30_Witness ==
  /\ gwOp.op = "orderDelivered"
  /\ \E x \in SetOf(dispatchSockets) : Emission(x, "orderDelivered", 1, 1) \in emitted
  /\ orders[1].exists /\ ~orders[1].rider_assigned /\ orders[1].status = "pending"
  /\ Len(logs) = 1

\* ======================================================================
\* DispatchGateway: who may report on an order
\* ======================================================================
\* several riders register on the sockets, re-register on newer ones, and
\* any socket reports on an order in the name of any rider
ReportNext ==
  \/ SocketConnect
  \/ \E client \in SocketIds, riderId \in RiderIds : handleRegisterRider(client, riderId, {})
  \/ \E client \in SocketIds : handleRegisterDispatcher(client)
  \/ \E client \in SocketIds, riderId \in RiderIds, o \in GatewayOrders :
       handleOrderAccepted(client, riderId, o, {})
  \/ \E client \in SocketIds, riderId \in RiderIds, o \in GatewayOrders :
       handleOrderRejected(client, riderId, o, {})
  \/ \E client \in SocketIds, riderId \in RiderIds, o \in GatewayOrders :
       handleOrderDelivered(client, riderId, o, {})

ReportSpec == BusInit /\ [][ReportNext]_vars

\* the step is `client` reporting `event` in the name of rider r
ReportedBy(event, client, r) ==
  /\ gwOp'.op = event /\ gwOp'.socket = client /\ gwOp'.rider = r
  /\ \E o \in GatewayOrders :
       \/ event = "orderAccepted" /\ handleOrderAccepted(client, r, o, {})
       \/ event = "orderRejected" /\ handleOrderRejected(client, r, o, {})
       \/ event = "orderDelivered" /\ handleOrderDelivered(client, r, o, {})

\* C31: an orderAccepted / orderRejected / orderDelivered report naming
\* rider r is forwarded to the dispatchers only when the reporting socket is
\* the one currently stored for r; from any other socket nothing is emitted
C31_OnlyRegisteredHandleReports ==
  [][\A event \in StatusEvents, client \in SocketIds, r \in RiderIds :
       (ReportedBy(event, client, r) /\ riderSockets[r] # client) =>
         /\ emitted' = emitted
         /\ emitCount' = emitCount]_vars

\* a dispatcher is registered, rider 1 moved from an older socket to a newer
\* one, and the last report named rider 1 but came from a socket that is
\* stored for rider 2; no report has been forwarded
C31_Witness ==
  /\ dispatchSockets # <<>>
  /\ gwOp.op \in StatusEvents /\ gwOp.rider = 1
  /\ riderSockets[1] # 0 /\ riderSockets[1] # gwOp.socket
  /\ riderSockets[2] = gwOp.socket
  /\ \A e \in emitted : e.event \notin StatusEvents

\* ======================================================================
\* createOrder while the broker connection may be lost
\* ======================================================================
NotifyLossNext ==
  \/ NotifyNext
  \/ \E c \in open, withError \in BOOLEAN : ConnectionLost(c, withError)

\* every rider of the table available and located
NotifyLossInit ==
  /\ NotifyInit
  /\ \A r \in RiderIds : riders[r].is_available /\ riders[r].position # NoPosition

NotifyLossSpec == NotifyLossInit /\ [][NotifyLossNext]_vars

\* the creation of order o was rolled back
CreationRolledBack(o) ==
  \E p \in Calls : /\ calls[p].op = "createOrder" /\ calls[p].orderId = o
                   /\ calls[p].pc = "done" /\ calls[p].result.kind # "ok"

\* C32: no newOrder notification that was pushed and no order.created event
\* at the broker refers to an order whose creation was rolled back
C32_NotifiedOrdersAreCommitted ==
  /\ \A e \in emitted : e.event = "newOrder" => ~CreationRolledBack(e.order)
  /\ \A m \in AllMessages : m.rk = toLowerCase("orderCreated") => ~CreationRolledBack(m.payload.order)

\* ======================================================================
\* The order carried by order.updated (checked under Spec)
\* ======================================================================
\* C33: the order in a published order.updated event carries the status
\* that the publishing transaction wrote (for order.assigned, which is
\* never published, the new rider)
C33_EventCarriesWrittenState ==
  [][\A p \in Calls :
       (/\ calls[p].op = "updateOrderStatus" /\ calls[p].pc = "publish"
        /\ msgSeq' = msgSeq + 1
        /\ updateOrderStatusPublish(p)) =>
         \E m \in AllMessages' : m.id = msgSeq' /\ m.payload.status = calls[p].status]_vars

\* ======================================================================
\* assignRider naming a rider that has no row in table riders
\* ======================================================================
\* a rider id with no row in table riders
AbsentRider == MaxRiders + 1

\* the UPDATE of assignRider when orders.rider_id references riders.id (the
\* orders table of 20240601_create_calculated_orders_table; the orders
\* table of the other migration has no such constraint, and the UPDATE is
\* then assignRiderUpdate): the statement fails for an absent rider
assignRiderUpdateRejected(p) ==
  /\ ~crashed /\ calls[p].op = "assignRider" /\ calls[p].pc = "update"
  /\ calls[p].riderId \notin RiderIds
  /\ orders[calls[p].orderId].exists /\ rowLock[calls[p].orderId] = 0
  /\ Rollback(p, Thrown("DatabaseError", "orders_rider_id_foreign"))
  /\ UNCHANGED orderSeq
  /\ ServiceFrame

AbsentRiderNext ==
  \/ \E p \in Calls, o \in OrderIds, r \in RiderIds \cup {AbsentRider} : assignRider(p, o, r)
  \/ \E p \in Calls : assignRiderUpdate(p)
  \/ \E p \in Calls : assignRiderUpdateRejected(p)
  \/ \E p \in Calls : assignRiderLog(p)
  \/ \E p \in Calls : getOrderById(p)
  \/ \E p \in Calls : assignRiderPublish(p)

AbsentRiderSpec == Init /\ [][AbsentRiderNext]_vars

\* C34: an order with rider_assigned = true references a rider that has a
\* row, and an assignRider call on an existing, unassigned order that names
\* a rider without a row fails with NotFoundException, the order staying
\* unassigned
C34_AssignedRiderExists ==
  /\ \A o \in OrderIds : orders[o].rider_assigned => orders[o].rider_id \in RiderIds
  /\ \A p \in Calls :
       (/\ calls[p].op = "assignRider" /\ calls[p].pc = "done"
        /\ calls[p].riderId = AbsentRider /\ calls[p].order.exists /\ ~calls[p].order.rider_assigned) =>
         /\ calls[p].result.kind = "NotFoundException"
         /\ ~orders[calls[p].orderId].rider_assigned

\* ======================================================================
\* What reaches a dead-letter queue (checked under BusSpec)
\* ======================================================================
\* the handler invocations of event m that failed
Failures(m) == Cardinality({i \in 1..Len(outcomes[m]) : outcomes[m][i] = "fail"})

\* the messages lying in the dead-letter queue of primary queue q
DeadLettered(q) == MessagesAt(ConfigOf(q).dlk)

\* C35 as stated: a message lies in a dead-letter queue only after at
\* least 4 failed handler invocations, for every primary queue
C35_DeadLetteredAfterFourFailures ==
  \A q \in PrimaryQueues : \A c \in DeadLettered(q) : Failures(c.id) >= maxRetries + 1

\* C35 amended: the same for the primary queues without a message TTL, the
\* dead-lettered message being the copy with retry-count 3
C35_DeadLetteredAfterFourFailuresNoTtl ==
  \A q \in PrimaryQueues :
    ~ConfigOf(q).ttl =>
      \A c \in DeadLettered(q) : Failures(c.id) >= maxRetries + 1 /\ c.rc = maxRetries

\* an order.updated event lies in order.updated.dead, rejected once after
\* its handler failed four times
C35_Witness ==
  \E c \in DeadLettered("order.updated") :
    /\ c.rc = maxRetries /\ Failures(c.id) = maxRetries + 1
    /\ rejects[c.id] = 1

\* ======================================================================
\* Redelivery after a connection loss
\* ======================================================================
\* one subscriber of order.updated that subscribes again after a reconnect;
\* its handler fails every event
RedeliveryNext ==
  \/ ConnectionUpNext
  \/ \E data \in EventPayloads : publishEvent(LiveKey, data)
  \/ consumeMessages(LiveQueue)
  \/ consumeMessagesAgain(LiveQueue)
  \/ Deliver(LiveQueue)
  \/ \E d \in pending : HandlerFail(d)
  \/ \E d \in pending : RetryTimer(d)

RedeliverySpec == BusInit /\ [][RedeliveryNext]_vars

\* C36 as stated: the handler is invoked at most max-retries + 1 times for
\* an event, connection losses included
C36_AtMostFourInvocations ==
  \A m \in Events : Len(outcomes[m]) <= maxRetries + 1

\* C36 amended: at most max-retries + 1 invocations, and one more for each
\* connection loss (the broker redelivers what was unacknowledged with its
\* retry-count unchanged)
C36_AtMostFourInvocationsAndOnePerLoss ==
  \A m \in Events : Len(outcomes[m]) <= maxRetries + 1 + losses

\* an event was handled five times: its delivery with retry-count 3 was
\* requeued by a connection loss and delivered again
C36_Witness ==
  \E m \in Events : /\ losses = 1 /\ Len(outcomes[m]) = maxRetries + 2
                    /\ \E c \in DeadLettered(LiveQueue) : c.id = m /\ c.rc = maxRetries

\* ======================================================================
\* Subscriptions across a reconnect (checked under BusSpec)
\* ======================================================================
\* C37: while the service is connected, every queue for which
\* consumeMessages has registered a handler has a consumer on an open
\* channel, also after the connection was lost and connect() succeeded again
C37_SubscriptionsSurviveReconnect ==
  (isConnected /\ channel \in openCh) =>
    \A q \in PrimaryQueues : consumeCalled[q] = "ok" => LiveConsumers(q) # {}

\* ======================================================================
\* Reconnects scheduled by one connection loss (checked under ConnectionSpec)
\* ======================================================================
\* C38: at most one connect() call under way or reconnect timer pending at
\* any instant (a connection loss schedules one reconnect)
C38_OneReconnectPerLoss ==
  connecting + Cardinality(setup) + timers <= 1

\* ======================================================================
\* isConnected and the stored channel
\* ======================================================================
\* connections lost once, and the connections left over by doubled
\* reconnects closing later
SupersededNext ==
  \/ ConnectionUpNext
  \/ \E c \in open, withError \in BOOLEAN : SupersededConnectionLost(c, withError)

SupersededSpec == BusInit /\ [][SupersededNext]_vars

\* C39: isConnected = true implies that this.channel is open on a live
\* connection, and the connection in this.connection, once set up and while
\* it is open with its channel in this.channel, is not marked disconnected
C39_ConnectedMeansUsableChannel ==
  /\ isConnected => (channel # 0 /\ channel \in openCh /\ channel \in open)
  /\ (connection \in open /\ connection \notin setup /\ channel = connection /\ channel \in openCh)
       => isConnected

\* ======================================================================
\* DispatchGateway: courier location updates

\* this.server.emit(event, data) names no room: the call addresses every
\* connection of the /dispatch namespace
Namespace == 0

\* handleRiderLocationUpdate(riderId, latitude, longitude): one emit to the
\* namespace, then broadcastToDispatchers; `throws` is the namespace emit
\* throwing, which the handler's catch block logs
handleRiderLocationUpdate(riderId, failing, throws) ==
  /\ emitCount < MaxEmits
  /\ IF throws
       THEN UNCHANGED <<emitted, emitCount>>
       ELSE /\ emitted' = emitted \cup {Emission(Namespace, "riderLocationUpdate", riderId, 0)}
                                  \cup {Emission(x, "riderLocationUpdate", riderId, 0) : x \in BroadcastReached(failing)}
            /\ emitCount' = emitCount + 1 + Cardinality(BroadcastReached(failing))
  /\ gwOp' = GatewayCall("riderLocationUpdate", riderId, Namespace, "returned", failing)
  /\ UNCHANGED <<riderSockets, dispatchSockets, connected, socketSeq>>
  /\ GatewayFrame

\* dashboards and other clients connect and register while couriers'
\* positions are reported
LocationNext ==
  \/ SocketConnect
  \/ \E client \in SocketIds : SocketDisconnect(client)
  \/ \E client \in SocketIds : handleRegisterDispatcher(client)
  \/ \E client \in SocketIds : handleUnregisterDispatcher(client)
  \/ \E riderId \in GatewayRiders, failing \in EmitFailures(SetOf(dispatchSockets)), throws \in BOOLEAN :
       handleRiderLocationUpdate(riderId, failing, throws)

LocationSpec == BusInit /\ [][LocationNext]_vars

\* the emit calls of a location update that reach connection x
LocationUpdatesTo(x) ==
  {e \in emitted : /\ e.event = "riderLocationUpdate"
                   /\ e.socket = x \/ (e.socket = Namespace /\ x \in connected)}

\* C40: a courier location update is delivered exactly once to each
\* connection in dispatchSockets and to no other connection (stated of the
\* first update of a run)
C40_LocationUpdateOncePerDispatcher ==
  [][(/\ gwOp'.op = "riderLocationUpdate"
      /\ \A e \in emitted : e.event # "riderLocationUpdate"
      /\ \E riderId \in GatewayRiders, failing \in EmitFailures(SetOf(dispatchSockets)), throws \in BOOLEAN :
            handleRiderLocationUpdate(riderId, failing, throws))
       => \A x \in SocketIds :
            Cardinality(LocationUpdatesTo(x)') = IF x \in SetOf(dispatchSockets) THEN 1 ELSE 0]_vars

====
